---- MODULE Spec2Model ----
(***************************************************************************)
(* Fleet coordination core: vehicle allocations, shifts, the order         *)
(* lifecycle with its attempts, and the inventory credit on completion.    *)
(* The services are request handlers over one shared database; every       *)
(* awaited database round trip of a handler is one step of that request,   *)
(* so requests interleave exactly where the code awaits.                   *)
(***************************************************************************)
EXTENDS Integers, FiniteSets, Sequences, TLC

(* ---------------------------- bounds ----------------------------------- *)
NumDrivers  == 2
NumVehicles == 2
NumLocations == 2
MaxDay      == 2
NumReq      == 2
MaxAllocs   == 2
MaxShifts   == 2
MaxOrders   == 1
MaxAttempts == 2
MaxQuantity == 2
MaxStock    == 3
MaxPings    == 2

Drivers   == 1..NumDrivers
Vehicles  == 1..NumVehicles
Locations == 1..NumLocations
Products  == {1}
Days      == 1..MaxDay
Slots     == 1..NumReq
\* the slot of a client that sends one request after the other
SeqSlots  == {1}

\* an id that names no row of the reference tables
UnknownId == 9
\* SQL NULL in an integer column
Null == 0

OrderStatus   == {"pending", "assigned", "in_progress", "completed", "failed"}
ShiftStatus   == {"scheduled", "active", "completed"}

VARIABLES
  today,      \* the calendar date new Date() falls on
  allocs,     \* table vehicle_allocations
  shifts,     \* table shifts
  orders,     \* table orders
  attempts,   \* table order_attempts
  inventory,  \* table inventory
  gps,        \* table gps_locations
  nextId,     \* AUTO_INCREMENT counters of the tables
  credit,     \* history: total inventory credited on behalf of each order id
  req         \* the requests in flight, one per slot

vars == <<today, allocs, shifts, orders, attempts, inventory, gps, nextId, credit, req>>
db   == <<allocs, shifts, orders, attempts, inventory, gps, nextId, credit>>

(* ---------------------------- requests --------------------------------- *)
NoArgs == [id |-> 0, vehicleId |-> 0, driverId |-> 0, date |-> 0,
           destinationId |-> 0, productId |-> 0, quantity |-> 0, status |-> "none",
           recordedAt |-> 0, adjustment |-> 0,
           receivedOn |-> 0]   \* history: the day the request arrived
NoRow == [id |-> 0]
NoLocals == [row |-> NoRow, date |-> 0, shiftId |-> 0, otherId |-> 0, tx |-> 0, found |-> FALSE,
             ids |-> {}]
Idle == [op |-> "none", pc |-> "idle", a |-> NoArgs, l |-> NoLocals, res |-> "none", msg |-> "none",
         body |-> {}]

Free(p) == req[p].pc = "idle"

Begin(p, op, pc, args) ==
  /\ Free(p)
  /\ req' = [req EXCEPT ![p] = [op |-> op, pc |-> pc, a |-> args, l |-> NoLocals, res |-> "none",
                                msg |-> "none", body |-> {}]]

Goto(p, pc, locals) ==
  req' = [req EXCEPT ![p] = [@ EXCEPT !.pc = pc, !.l = locals]]

\* the handler returns or throws: the response is res, the locals are gone
Finish(p, res) ==
  req' = [req EXCEPT ![p] = [@ EXCEPT !.pc = "done", !.l = NoLocals, !.res = res]]

\* the handler throws an error whose message quotes a value
FinishMsg(p, res, msg) ==
  req' = [req EXCEPT ![p] = [@ EXCEPT !.pc = "done", !.l = NoLocals, !.res = res, !.msg = msg]]

\* the handler returns a list of rows, held here as the set of their ids
FinishRows(p, rows) ==
  req' = [req EXCEPT ![p] = [@ EXCEPT !.pc = "done", !.l = NoLocals, !.res = "ok", !.body = rows]]

\* the validation middleware rejects the request before the handler runs
Reject(p, op, args) ==
  /\ Free(p)
  /\ req' = [req EXCEPT ![p] = [op |-> op, pc |-> "done", a |-> args, l |-> NoLocals,
                                res |-> "Validation", msg |-> "none", body |-> {}]]

\* a middleware that knows the application's own errors only
errorMiddlewareAppErrorsOnly(err) ==
  IF err \in {"NotFound", "Conflict", "BadRequest", "Validation"} THEN err ELSE "Internal"

\* what the error middleware answers for an error that reaches it
errorMiddleware(err) ==
  CASE err = "P2002" -> "Conflict"
    [] err = "P2025" -> "NotFound"
    [] err = "P2003" -> "ForeignKey"
    [] err \in {"NotFound", "Conflict", "BadRequest", "Validation"} -> err
    [] OTHER -> "Internal"

\* the response has been sent; the slot takes the next request
Return(p) ==
  /\ req[p].pc = "done"
  /\ req' = [req EXCEPT ![p] = Idle]
  /\ UNCHANGED <<today, db>>

At(p, op, pc) == req[p].op = op /\ req[p].pc = pc

(* ---------------------------- queries ---------------------------------- *)
ById(table, id) == {r \in table : r.id = id}
RowOf(table, id) == CHOOSE r \in table : r.id = id

\* findFirst without orderBy: the engine may return any matching row
FirstOf(rows) == IF rows = {} THEN {NoRow} ELSE rows

driverExists(id)  == id \in Drivers
vehicleExists(id) == id \in Vehicles
locationExists(id) == id \in Locations
productExists(id) == id \in Products

(* ---------------------------- the clock -------------------------------- *)
\* midnight passes
Tick ==
  /\ today < MaxDay
  /\ today' = today + 1
  /\ UNCHANGED <<db, req>>

(* ------------------------ Allocation Registry -------------------------- *)
\* @@unique([vehicleId, allocationDate]) and @@unique([driverId, allocationDate])
VehicleDateTakenCompoundKey(rows, r) ==
  \E x \in rows : x.id # r.id /\ x.vehicleId = r.vehicleId /\ x.driverId = r.driverId
                               /\ x.allocationDate = r.allocationDate
VehicleDateTaken(rows, r) ==
  \E x \in rows : x.id # r.id /\ x.vehicleId = r.vehicleId /\ x.allocationDate = r.allocationDate
DriverDateTakenCompoundKey(rows, r) ==
  \E x \in rows : x.id # r.id /\ x.vehicleId = r.vehicleId /\ x.driverId = r.driverId
                               /\ x.allocationDate = r.allocationDate
DriverDateTaken(rows, r) ==
  \E x \in rows : x.id # r.id /\ x.driverId = r.driverId /\ x.allocationDate = r.allocationDate

\* the day the process loaded its modules on
bootDay == 1

\* a validator that compares with the day the module was loaded on
ValidAllocationDateAtBoot(d) == d >= bootDay

\* the validator compares with getTodayAtMidnight() at each request
ValidAllocationDate(d) == d >= today

\* POST /allocations
AllocateBegin(p) ==
  \E v \in Vehicles \cup {UnknownId}, d \in Drivers \cup {UnknownId}, t \in Days :
    LET args == [NoArgs EXCEPT !.vehicleId = v, !.driverId = d, !.date = t, !.receivedOn = today]
    IN /\ IF ValidAllocationDate(t)
            THEN Begin(p, "allocate", "lookup", args)
            ELSE Reject(p, "allocate", args)
       /\ UNCHANGED <<today, db>>

\* Promise.all of the vehicle and the driver lookup
AllocateLookup(p) ==
  /\ At(p, "allocate", "lookup")
  /\ IF ~vehicleExists(req[p].a.vehicleId) \/ ~driverExists(req[p].a.driverId)
       THEN Finish(p, "NotFound")
       ELSE Goto(p, "create", req[p].l)
  /\ UNCHANGED <<today, db>>

\* an insert that no uniqueness constraint guards
AllocateCreateUnguarded(p) ==
  /\ At(p, "allocate", "create")
  /\ nextId.alloc <= MaxAllocs
  /\ allocs' = allocs \cup {[id |-> nextId.alloc, vehicleId |-> req[p].a.vehicleId,
                              driverId |-> req[p].a.driverId, allocationDate |-> req[p].a.date]}
  /\ nextId' = [nextId EXCEPT !.alloc = @ + 1]
  /\ Finish(p, "ok")
  /\ UNCHANGED <<today, shifts, orders, attempts, inventory, credit, gps>>

\* prisma.vehicleAllocation.create and its P2002 handler
AllocateCreate(p) ==
  /\ At(p, "allocate", "create")
  /\ LET r == [id |-> nextId.alloc, vehicleId |-> req[p].a.vehicleId,
               driverId |-> req[p].a.driverId, allocationDate |-> req[p].a.date]
     IN IF VehicleDateTaken(allocs, r) \/ DriverDateTaken(allocs, r)
          THEN /\ Finish(p, "Conflict")
               /\ UNCHANGED <<today, db>>
          ELSE /\ nextId.alloc <= MaxAllocs
               /\ allocs' = allocs \cup {r}
               /\ nextId' = [nextId EXCEPT !.alloc = @ + 1]
               /\ Finish(p, "ok")
               /\ UNCHANGED <<today, shifts, orders, attempts, inventory, credit, gps>>

\* PUT /allocations/:id ; the body carries at least one of the three fields
ModifyBegin(p) ==
  \E id \in 1..MaxAllocs, v \in Vehicles \cup {Null}, d \in Drivers \cup {Null}, t \in Days \cup {Null} :
    /\ <<v, d, t>> # <<Null, Null, Null>>
    /\ t # Null => ValidAllocationDate(t)
    /\ Begin(p, "modify", "get", [NoArgs EXCEPT !.id = id, !.vehicleId = v, !.driverId = d, !.date = t])
    /\ UNCHANGED <<today, db>>

ModifyGet(p) ==
  /\ At(p, "modify", "get")
  /\ IF ById(allocs, req[p].a.id) = {}
       THEN Finish(p, "NotFound")
       ELSE Goto(p, "shift", req[p].l)
  /\ UNCHANGED <<today, db>>

\* a guard that looks for a scheduled shift instead
ModifyCheckShiftScheduled(p) ==
  /\ At(p, "modify", "shift")
  /\ IF \E s \in shifts : s.vehicleAllocationId = req[p].a.id /\ s.status = "scheduled"
       THEN Finish(p, "Conflict")
       ELSE Goto(p, "write", req[p].l)
  /\ UNCHANGED <<today, db>>

\* the active-shift guard of update
ModifyCheckShift(p) ==
  /\ At(p, "modify", "shift")
  /\ IF \E s \in shifts : s.vehicleAllocationId = req[p].a.id /\ s.status = "active"
       THEN Finish(p, "Conflict")
       ELSE Goto(p, "write", req[p].l)
  /\ UNCHANGED <<today, db>>

\* prisma.vehicleAllocation.update and its P2002 handler
ModifyWrite(p) ==
  /\ At(p, "modify", "write")
  /\ IF ById(allocs, req[p].a.id) = {}
       THEN /\ Finish(p, errorMiddleware("P2025"))
            /\ UNCHANGED <<today, db>>
       ELSE LET old == RowOf(allocs, req[p].a.id)
                new == [id |-> old.id,
                        vehicleId |-> IF req[p].a.vehicleId = Null THEN old.vehicleId ELSE req[p].a.vehicleId,
                        driverId |-> IF req[p].a.driverId = Null THEN old.driverId ELSE req[p].a.driverId,
                        allocationDate |-> IF req[p].a.date = Null THEN old.allocationDate ELSE req[p].a.date]
            IN IF VehicleDateTaken(allocs, new) \/ DriverDateTaken(allocs, new)
                 THEN /\ Finish(p, "Conflict")
                      /\ UNCHANGED <<today, db>>
                 ELSE /\ allocs' = (allocs \ {old}) \cup {new}
                      /\ Finish(p, "ok")
                      /\ UNCHANGED <<today, shifts, orders, attempts, inventory, nextId, credit, gps>>

\* DELETE /allocations/:id
ReleaseBegin(p) ==
  \E id \in 1..MaxAllocs :
    /\ Begin(p, "release", "get", [NoArgs EXCEPT !.id = id])
    /\ UNCHANGED <<today, db>>

ReleaseGet(p) ==
  /\ At(p, "release", "get")
  /\ IF ById(allocs, req[p].a.id) = {}
       THEN Finish(p, "NotFound")
       ELSE Goto(p, "count", req[p].l)
  /\ UNCHANGED <<today, db>>

\* a count of the active shifts alone
ReleaseCountActiveOnly(p) ==
  /\ At(p, "release", "count")
  /\ IF \E s \in shifts : s.vehicleAllocationId = req[p].a.id /\ s.status = "active"
       THEN Finish(p, "Conflict")
       ELSE Goto(p, "delete", req[p].l)
  /\ UNCHANGED <<today, db>>

\* shift.count({ vehicleAllocationId: id })
ReleaseCount(p) ==
  /\ At(p, "release", "count")
  /\ IF \E s \in shifts : s.vehicleAllocationId = req[p].a.id
       THEN Finish(p, "Conflict")
       ELSE Goto(p, "delete", req[p].l)
  /\ UNCHANGED <<today, db>>

\* prisma.vehicleAllocation.delete ; shifts.vehicleAllocationId is a foreign key
ReleaseDelete(p) ==
  /\ At(p, "release", "delete")
  /\ IF ById(allocs, req[p].a.id) = {}
       THEN /\ Finish(p, errorMiddleware("P2025"))
            /\ UNCHANGED <<today, db>>
       ELSE IF \E s \in shifts : s.vehicleAllocationId = req[p].a.id
       THEN /\ Finish(p, errorMiddleware("P2003"))
            /\ UNCHANGED <<today, db>>
       ELSE /\ allocs' = allocs \ ById(allocs, req[p].a.id)
            /\ Finish(p, "ok")
            /\ UNCHANGED <<today, shifts, orders, attempts, inventory, nextId, credit, gps>>

\* GET /allocations/available-vehicles?date=
AvailableBegin(p) ==
  \E t \in Days :
    /\ Begin(p, "available", "allocated", [NoArgs EXCEPT !.date = t])
    /\ UNCHANGED <<today, db>>

\* the vehicle ids of all allocations, whatever their date
allocatedVehicleIdsAnyDate(t) == {a.vehicleId : a \in allocs}

\* vehicleAllocation.findMany({ where: { allocationDate }, select: { vehicleId } })
allocatedVehicleIds(t) == {a.vehicleId : a \in {x \in allocs : x.allocationDate = t}}

AvailableAllocated(p) ==
  /\ At(p, "available", "allocated")
  /\ Goto(p, "vehicles", [req[p].l EXCEPT !.ids = allocatedVehicleIds(req[p].a.date)])
  /\ UNCHANGED <<today, db>>

\* vehicle.findMany({ where: { id: { notIn: allocatedIds } } })
AvailableVehicles(p) ==
  /\ At(p, "available", "vehicles")
  /\ FinishRows(p, {v \in Vehicles : v \notin req[p].l.ids})
  /\ UNCHANGED <<today, db>>

(* --------------------------- Shift Lifecycle --------------------------- *)
\* UNIQUE (driverId, shiftDate)
DriverShiftDateTaken(rows, r) ==
  \E x \in rows : x.id # r.id /\ x.driverId = r.driverId /\ x.shiftDate = r.shiftDate

ActiveShifts(d) == {s \in shifts : s.driverId = d /\ s.status = "active"}

\* the validator admits shift dates from the day the process loaded the module on
ValidShiftDate(t) == t >= bootDay

\* POST /shifts/schedule
ScheduleBegin(p) ==
  \E d \in Drivers \cup {UnknownId}, t \in Days :
    LET args == [NoArgs EXCEPT !.driverId = d, !.date = t, !.receivedOn = today]
    IN /\ IF ValidShiftDate(t)
            THEN Begin(p, "schedule", "driver", args)
            ELSE Reject(p, "schedule", args)
       /\ UNCHANGED <<today, db>>

ScheduleDriver(p) ==
  /\ At(p, "schedule", "driver")
  /\ IF ~driverExists(req[p].a.driverId)
       THEN Finish(p, "NotFound")
       ELSE Goto(p, "find", req[p].l)
  /\ UNCHANGED <<today, db>>

\* findUnique({driverId_shiftDate}): a shift of that day, whatever its status
ScheduleFind(p) ==
  /\ At(p, "schedule", "find")
  /\ IF \E x \in shifts : x.driverId = req[p].a.driverId /\ x.shiftDate = req[p].a.date
       THEN Finish(p, "Conflict")
       ELSE Goto(p, "create", req[p].l)
  /\ UNCHANGED <<today, db>>

\* shift.create with status scheduled
ScheduleCreate(p) ==
  /\ At(p, "schedule", "create")
  /\ LET r == [id |-> nextId.shift, driverId |-> req[p].a.driverId,
               shiftDate |-> req[p].a.date, status |-> "scheduled",
               startTime |-> Null, endTime |-> Null, vehicleAllocationId |-> Null]
     IN IF DriverShiftDateTaken(shifts, r)
          THEN /\ Finish(p, errorMiddleware("P2002"))
               /\ UNCHANGED <<today, db>>
          ELSE /\ nextId.shift <= MaxShifts
               /\ shifts' = shifts \cup {r}
               /\ nextId' = [nextId EXCEPT !.shift = @ + 1]
               /\ Finish(p, "ok")
               /\ UNCHANGED <<today, allocs, orders, attempts, inventory, credit, gps>>

\* POST /shifts/start
StartBegin(p) ==
  \E d \in Drivers \cup {UnknownId} :
    /\ Begin(p, "startShift", "driver", [NoArgs EXCEPT !.driverId = d])
    /\ UNCHANGED <<today, db>>

\* the driver lookup; the handler then takes today's date
StartDriver(p) ==
  /\ At(p, "startShift", "driver")
  /\ IF ~driverExists(req[p].a.driverId)
       THEN Finish(p, "NotFound")
       ELSE Goto(p, "active", [req[p].l EXCEPT !.date = today])
  /\ UNCHANGED <<today, db>>

\* a check that looks only at the shift of the day
StartCheckActiveToday(p) ==
  /\ At(p, "startShift", "active")
  /\ IF \E x \in ActiveShifts(req[p].a.driverId) : x.shiftDate = req[p].l.date
       THEN Finish(p, "Conflict")
       ELSE Goto(p, "alloc", req[p].l)
  /\ UNCHANGED <<today, db>>

\* findFirst({driverId, status: 'active'})
StartCheckActive(p) ==
  /\ At(p, "startShift", "active")
  /\ IF ActiveShifts(req[p].a.driverId) # {}
       THEN Finish(p, "Conflict")
       ELSE Goto(p, "alloc", req[p].l)
  /\ UNCHANGED <<today, db>>

\* a lookup that takes any allocation of the driver
getByDriverAnyDate(d, t) ==
  FirstOf({a \in allocs : a.driverId = d})

\* allocationService.getByDriverAndDate(driverId, today)
getByDriverAndDate(d, t) ==
  FirstOf({a \in allocs : a.driverId = d /\ a.allocationDate = t})

StartCheckAlloc(p) ==
  /\ At(p, "startShift", "alloc")
  /\ \E a \in getByDriverAndDate(req[p].a.driverId, req[p].l.date) :
       IF a = NoRow
         THEN Finish(p, "BadRequest")
         ELSE Goto(p, "find", [req[p].l EXCEPT !.otherId = a.id])
  /\ UNCHANGED <<today, db>>

\* findUnique({driverId_shiftDate}): the shift of today, whatever its status
StartFindShift(p) ==
  /\ At(p, "startShift", "find")
  /\ \E s \in FirstOf({x \in shifts : x.driverId = req[p].a.driverId /\ x.shiftDate = req[p].l.date}) :
       Goto(p, "write", [req[p].l EXCEPT !.shiftId = s.id])
  /\ UNCHANGED <<today, db>>

\* shift.update of the shift found, or shift.create of an ad-hoc one
StartWrite(p) ==
  /\ At(p, "startShift", "write")
  /\ IF ById(allocs, req[p].l.otherId) = {}
       THEN /\ Finish(p, errorMiddleware("P2003"))
            /\ UNCHANGED <<today, db>>
       ELSE IF req[p].l.shiftId # Null
       THEN LET old == RowOf(shifts, req[p].l.shiftId)
            IN /\ shifts' = (shifts \ {old}) \cup
                     {[old EXCEPT !.status = "active", !.startTime = 1,
                                  !.vehicleAllocationId = req[p].l.otherId]}
               /\ Finish(p, "ok")
               /\ UNCHANGED <<today, allocs, orders, attempts, inventory, nextId, credit, gps>>
       ELSE LET r == [id |-> nextId.shift, driverId |-> req[p].a.driverId,
                      shiftDate |-> req[p].l.date, status |-> "active",
                      startTime |-> 1, endTime |-> Null,
                      vehicleAllocationId |-> req[p].l.otherId]
            IN IF DriverShiftDateTaken(shifts, r)
                 THEN /\ Finish(p, errorMiddleware("P2002"))
                      /\ UNCHANGED <<today, db>>
                 ELSE /\ nextId.shift <= MaxShifts
                      /\ shifts' = shifts \cup {r}
                      /\ nextId' = [nextId EXCEPT !.shift = @ + 1]
                      /\ Finish(p, "ok")
                      /\ UNCHANGED <<today, allocs, orders, attempts, inventory, credit, gps>>

\* POST /shifts/:id/end
EndBegin(p) ==
  \E id \in 1..MaxShifts, d \in Drivers :
    /\ Begin(p, "endShift", "get", [NoArgs EXCEPT !.id = id, !.driverId = d])
    /\ UNCHANGED <<today, db>>

\* a handler that checks the status of the shift but not whose it is
EndGetAnyCaller(p) ==
  /\ At(p, "endShift", "get")
  /\ IF ById(shifts, req[p].a.id) = {}
       THEN Finish(p, "NotFound")
       ELSE LET s == RowOf(shifts, req[p].a.id)
            IN IF s.status # "active"
                 THEN Finish(p, "BadRequest")
                 ELSE Goto(p, "orders", [req[p].l EXCEPT !.date = s.shiftDate])
  /\ UNCHANGED <<today, db>>

\* getById, then the ownership and the status check on the row read
EndGet(p) ==
  /\ At(p, "endShift", "get")
  /\ IF ById(shifts, req[p].a.id) = {}
       THEN Finish(p, "NotFound")
       ELSE LET s == RowOf(shifts, req[p].a.id)
            IN IF s.driverId # req[p].a.driverId \/ s.status # "active"
                 THEN Finish(p, "BadRequest")
                 ELSE Goto(p, "orders", [req[p].l EXCEPT !.date = s.shiftDate])
  /\ UNCHANGED <<today, db>>

\* a check that only an order under way holds the shift open
EndCheckOrdersInProgressOnly(p) ==
  /\ At(p, "endShift", "orders")
  /\ IF \E o \in orders : /\ o.assignedDriverId = req[p].a.driverId
                          /\ o.assignedDate = req[p].l.date
                          /\ o.status = "in_progress"
       THEN Finish(p, "BadRequest")
       ELSE Goto(p, "write", req[p].l)
  /\ UNCHANGED <<today, db>>

\* the orders of the driver and the shift date that are still open
EndCheckOrders(p) ==
  /\ At(p, "endShift", "orders")
  /\ IF \E o \in orders : /\ o.assignedDriverId = req[p].a.driverId
                          /\ o.assignedDate = req[p].l.date
                          /\ o.status \in {"assigned", "in_progress"}
       THEN Finish(p, "BadRequest")
       ELSE Goto(p, "write", req[p].l)
  /\ UNCHANGED <<today, db>>

EndWrite(p) ==
  /\ At(p, "endShift", "write")
  /\ LET old == RowOf(shifts, req[p].a.id)
     IN shifts' = (shifts \ {old}) \cup {[old EXCEPT !.status = "completed", !.endTime = 1]}
  /\ Finish(p, "ok")
  /\ UNCHANGED <<today, allocs, orders, attempts, inventory, nextId, credit, gps>>


(* --------------------------- Telemetry Gate ---------------------------- *)
\* the active shifts, whatever vehicle they drive
ActiveShiftsOfAnyVehicle(v) ==
  {x \in shifts : x.status = "active"}

\* the active shifts whose allocation is of vehicle v
ActiveShiftsOfVehicle(v) ==
  {x \in shifts : /\ x.status = "active"
                  /\ \E a \in allocs : a.id = x.vehicleAllocationId /\ a.vehicleId = v}

\* POST /gps ; the validator fills recordedAt with the time of validation when
\* the body has none (latitude and longitude are stored as sent)
RecordGpsBegin(p) ==
  \E v \in Vehicles \cup {UnknownId}, at \in Days \cup {Null} :
    /\ Begin(p, "recordGps", "vehicle",
             [NoArgs EXCEPT !.vehicleId = v, !.recordedAt = IF at = Null THEN today ELSE at])
    /\ UNCHANGED <<today, db>>

RecordGpsVehicle(p) ==
  /\ At(p, "recordGps", "vehicle")
  /\ IF ~vehicleExists(req[p].a.vehicleId)
       THEN Finish(p, "NotFound")
       ELSE Goto(p, "shift", req[p].l)
  /\ UNCHANGED <<today, db>>

\* shift.findFirst({status: 'active', vehicleAllocation: {vehicleId}})
RecordGpsShift(p) ==
  /\ At(p, "recordGps", "shift")
  /\ \E x \in FirstOf(ActiveShiftsOfVehicle(req[p].a.vehicleId)) :
       IF x = NoRow
         THEN Finish(p, "BadRequest")
         ELSE Goto(p, "create", [req[p].l EXCEPT !.shiftId = x.id])
  /\ UNCHANGED <<today, db>>

\* gpsLocation.create ; shiftId and vehicleId are foreign keys
RecordGpsCreate(p) ==
  /\ At(p, "recordGps", "create")
  /\ IF ById(shifts, req[p].l.shiftId) = {}
       THEN /\ Finish(p, errorMiddleware("P2003"))
            /\ UNCHANGED <<today, db>>
       ELSE /\ nextId.gps <= MaxPings
            /\ gps' = gps \cup
                 {[id |-> nextId.gps, vehicleId |-> req[p].a.vehicleId,
                   shiftId |-> req[p].l.shiftId,
                   recordedAt |-> IF req[p].a.recordedAt = Null THEN today
                                  ELSE req[p].a.recordedAt]}
            /\ nextId' = [nextId EXCEPT !.gps = @ + 1]
            /\ Finish(p, "ok")
            /\ UNCHANGED <<today, allocs, shifts, orders, attempts, inventory, credit>>

(* --------------------------- Order Lifecycle --------------------------- *)
\* POST /orders
CreateOrderBegin(p) ==
  \E dest \in Locations \cup {UnknownId}, q \in 1..MaxQuantity,
     d \in Drivers \cup {Null, UnknownId}, t \in Days \cup {Null} :
    /\ d = Null => t = Null
    /\ nextId.order <= MaxOrders
    /\ Begin(p, "createOrder", "lookup",
             [NoArgs EXCEPT !.destinationId = dest, !.productId = 1, !.quantity = q,
                            !.driverId = d, !.date = t])
    /\ UNCHANGED <<today, db>>

\* Promise.all of the destination and the product lookup
CreateOrderLookup(p) ==
  /\ At(p, "createOrder", "lookup")
  /\ IF ~locationExists(req[p].a.destinationId) \/ ~productExists(req[p].a.productId)
       THEN Finish(p, "NotFound")
       ELSE IF req[p].a.driverId # Null THEN Goto(p, "driver", req[p].l)
       ELSE Goto(p, "create", req[p].l)
  /\ UNCHANGED <<today, db>>

\* the driver lookup; an order with a driver gets a date, today by default
CreateOrderDriver(p) ==
  /\ At(p, "createOrder", "driver")
  /\ IF ~driverExists(req[p].a.driverId)
       THEN Finish(p, "NotFound")
       ELSE Goto(p, "create",
                 [req[p].l EXCEPT !.date = IF req[p].a.date = Null THEN today ELSE req[p].a.date])
  /\ UNCHANGED <<today, db>>

CreateOrderInsert(p) ==
  /\ At(p, "createOrder", "create")
  /\ nextId.order <= MaxOrders
  /\ orders' = orders \cup
       {[id |-> nextId.order, destinationId |-> req[p].a.destinationId,
         productId |-> req[p].a.productId, quantity |-> req[p].a.quantity,
         status |-> IF req[p].a.driverId # Null THEN "assigned" ELSE "pending",
         assignedDriverId |-> req[p].a.driverId, assignedDate |-> req[p].l.date]}
  /\ nextId' = [nextId EXCEPT !.order = @ + 1]
  /\ Finish(p, "ok")
  /\ UNCHANGED <<today, allocs, shifts, attempts, inventory, credit, gps>>

\* PUT /orders/:id ; the bodies tried carry one of the validated fields
UpdateOrderBegin(p) ==
  \E id \in 1..MaxOrders, dest \in Locations \cup {Null}, q \in 0..MaxQuantity,
     st \in OrderStatus \cup {"none"} :
    /\ Cardinality({f \in {1, 2, 3} : <<dest # Null, q # 0, st # "none">>[f]}) = 1
    /\ Begin(p, "updateOrder", "get",
             [NoArgs EXCEPT !.id = id, !.destinationId = dest, !.quantity = q, !.status = st])
    /\ UNCHANGED <<today, db>>

UpdateOrderGet(p) ==
  /\ At(p, "updateOrder", "get")
  /\ IF ById(orders, req[p].a.id) = {}
       THEN Finish(p, "NotFound")
       ELSE Goto(p, "write", req[p].l)
  /\ UNCHANGED <<today, db>>

\* prisma.order.update({ where: { id }, data })
UpdateOrderWrite(p) ==
  /\ At(p, "updateOrder", "write")
  /\ IF ById(orders, req[p].a.id) = {}
       THEN /\ Finish(p, errorMiddleware("P2025"))
            /\ UNCHANGED <<today, db>>
       ELSE LET old == RowOf(orders, req[p].a.id)
            IN /\ orders' = (orders \ {old}) \cup
                     {[old EXCEPT
                         !.destinationId = IF req[p].a.destinationId = Null THEN @ ELSE req[p].a.destinationId,
                         !.quantity = IF req[p].a.quantity = 0 THEN @ ELSE req[p].a.quantity,
                         !.status = IF req[p].a.status = "none" THEN @ ELSE req[p].a.status]}
               /\ Finish(p, "ok")
               /\ UNCHANGED <<today, allocs, shifts, attempts, inventory, nextId, credit, gps>>

\* DELETE /orders/:id
RemoveOrderBegin(p) ==
  \E id \in 1..MaxOrders :
    /\ Begin(p, "removeOrder", "get", [NoArgs EXCEPT !.id = id])
    /\ UNCHANGED <<today, db>>

\* a handler that lets every order go that was not started yet
RemoveOrderGetUnstarted(p) ==
  /\ At(p, "removeOrder", "get")
  /\ IF ById(orders, req[p].a.id) = {}
       THEN Finish(p, "NotFound")
       ELSE IF RowOf(orders, req[p].a.id).status \notin {"pending", "assigned"}
       THEN Finish(p, "Conflict")
       ELSE Goto(p, "delete", req[p].l)
  /\ UNCHANGED <<today, db>>

\* getById and the status check of remove
RemoveOrderGet(p) ==
  /\ At(p, "removeOrder", "get")
  /\ IF ById(orders, req[p].a.id) = {}
       THEN Finish(p, "NotFound")
       ELSE IF RowOf(orders, req[p].a.id).status # "pending"
       THEN Finish(p, "Conflict")
       ELSE Goto(p, "delete", req[p].l)
  /\ UNCHANGED <<today, db>>

\* prisma.order.delete ; order_attempts.orderId is a foreign key
RemoveOrderDelete(p) ==
  /\ At(p, "removeOrder", "delete")
  /\ IF ById(orders, req[p].a.id) = {}
       THEN /\ Finish(p, errorMiddleware("P2025"))
            /\ UNCHANGED <<today, db>>
       ELSE IF \E a \in attempts : a.orderId = req[p].a.id
       THEN /\ Finish(p, errorMiddleware("P2003"))
            /\ UNCHANGED <<today, db>>
       ELSE /\ orders' = orders \ ById(orders, req[p].a.id)
            /\ Finish(p, "ok")
            /\ UNCHANGED <<today, allocs, shifts, attempts, inventory, nextId, credit, gps>>

\* POST /orders/:id/assign
AssignBegin(p) ==
  \E id \in 1..MaxOrders, d \in Drivers \cup {UnknownId}, t \in Days \cup {Null} :
    /\ Begin(p, "assign", "get", [NoArgs EXCEPT !.id = id, !.driverId = d, !.date = t])
    /\ UNCHANGED <<today, db>>

\* the statuses assign accepts
Assignable(st) == st \in {"pending", "assigned"}

\* getById and the status check on the row read
AssignGet(p) ==
  /\ At(p, "assign", "get")
  /\ IF ById(orders, req[p].a.id) = {}
       THEN Finish(p, "NotFound")
       ELSE IF ~Assignable(RowOf(orders, req[p].a.id).status)
       THEN Finish(p, "Conflict")
       ELSE Goto(p, "driver", req[p].l)
  /\ UNCHANGED <<today, db>>

\* the driver lookup; the date is the one given, today by default
AssignDriver(p) ==
  /\ At(p, "assign", "driver")
  /\ IF ~driverExists(req[p].a.driverId)
       THEN Finish(p, "NotFound")
       ELSE Goto(p, "write",
                 [req[p].l EXCEPT !.date = IF req[p].a.date = Null THEN today ELSE req[p].a.date])
  /\ UNCHANGED <<today, db>>

AssignWrite(p) ==
  /\ At(p, "assign", "write")
  /\ IF ById(orders, req[p].a.id) = {}
       THEN /\ Finish(p, errorMiddleware("P2025"))
            /\ UNCHANGED <<today, db>>
       ELSE LET old == RowOf(orders, req[p].a.id)
            IN /\ orders' = (orders \ {old}) \cup
                     {[old EXCEPT !.assignedDriverId = req[p].a.driverId,
                                  !.assignedDate = req[p].l.date, !.status = "assigned"]}
               /\ Finish(p, "ok")
               /\ UNCHANGED <<today, allocs, shifts, attempts, inventory, nextId, credit, gps>>


\* shiftService.getActiveShiftForDriver: findFirst({driverId, status: 'active'})
getActiveShiftForDriver(d) == FirstOf(ActiveShifts(d))

\* the statuses each driver action accepts
StartableAnyOpen(st) == st \in {"assigned", "in_progress"}
Startable(st)   == st = "assigned"
CompletableOrAssigned(st) == st \in {"assigned", "in_progress"}
Completable(st) == st = "in_progress"
FailableStartedOnly(st) == st = "in_progress"
Failable(st)    == st \in {"assigned", "in_progress"}

\* getById, then the ownership and the status check on the row read
OrderGet(p, op, allowed, snapshot) ==
  /\ At(p, op, "get")
  /\ IF ById(orders, req[p].a.id) = {}
       THEN Finish(p, "NotFound")
       ELSE LET o == RowOf(orders, req[p].a.id)
            IN IF o.assignedDriverId # req[p].a.driverId THEN Finish(p, "BadRequest")
               ELSE IF o.status \notin allowed THEN FinishMsg(p, "Conflict", o.status)
               ELSE Goto(p, "shift", IF snapshot THEN [req[p].l EXCEPT !.row = o] ELSE req[p].l)
  /\ UNCHANGED <<today, db>>

\* the active shift of the caller, required by every driver action
OrderShift(p, op, next) ==
  /\ At(p, op, "shift")
  /\ \E s \in getActiveShiftForDriver(req[p].a.driverId) :
       IF s = NoRow
         THEN Finish(p, "BadRequest")
         ELSE Goto(p, next, [req[p].l EXCEPT !.shiftId = s.id])
  /\ UNCHANGED <<today, db>>

\* orderAttempt.findFirst({orderId, shiftId, status: 'in_progress'})
OpenAttempts(orderId, shiftId) ==
  FirstOf({a \in attempts : a.orderId = orderId /\ a.shiftId = shiftId /\ a.status = "in_progress"})

\* the writes a handler issues inside prisma.$transaction
TxLength(op) ==
  CASE op = "startOrder" -> 2
    [] op = "completeOrder" -> 3
    [] op = "failOrder" -> 2
    [] OTHER -> 0

InventoryRows(loc, prod) == {i \in inventory : i.locationId = loc /\ i.productId = prod}

\* writes sent through the global client instead of the transaction client:
\* the first one, the order status, takes effect at once
TxWriteOutsideTransaction(p) ==
  /\ req[p].pc = "tx"
  /\ req[p].l.tx < TxLength(req[p].op)
  /\ orders' = IF req[p].l.tx = 0
                 THEN {[o EXCEPT !.status =
                          IF o.id # req[p].a.id THEN @
                          ELSE CASE req[p].op = "startOrder" -> "in_progress"
                                 [] req[p].op = "completeOrder" -> "completed"
                                 [] OTHER -> "failed"] : o \in orders}
                 ELSE orders
  /\ Goto(p, "tx", [req[p].l EXCEPT !.tx = @ + 1])
  /\ UNCHANGED <<today, allocs, shifts, attempts, inventory, nextId, credit, gps>>

\* one write inside the transaction: nothing of it is visible to other
\* requests before the commit; the upsert first looks for the inventory row
TxWrite(p) ==
  /\ req[p].pc = "tx"
  /\ req[p].l.tx < TxLength(req[p].op)
  /\ Goto(p, "tx", [req[p].l EXCEPT
        !.tx = @ + 1,
        !.found = IF req[p].op = "completeOrder" /\ req[p].l.tx = 2
                    THEN InventoryRows(req[p].l.row.destinationId, req[p].l.row.productId) # {}
                    ELSE @])
  /\ UNCHANGED <<today, db>>

\* a write fails, the transaction times out or the request is aborted: rollback
TxAbort(p) ==
  /\ req[p].pc = "tx"
  /\ Finish(p, errorMiddleware("P2028"))
  /\ UNCHANGED <<today, db>>

ReadyToCommit(p, op) == At(p, op, "tx") /\ req[p].l.tx = TxLength(op)

\* POST /orders/:id/start
StartOrderBegin(p) ==
  \E id \in 1..MaxOrders, d \in Drivers :
    /\ Begin(p, "startOrder", "get", [NoArgs EXCEPT !.id = id, !.driverId = d])
    /\ UNCHANGED <<today, db>>

StartOrderGet(p) ==
  /\ req[p].op = "startOrder"
  /\ OrderGet(p, "startOrder", {st \in OrderStatus : Startable(st)}, FALSE)

StartOrderShift(p) ==
  /\ req[p].op = "startOrder"
  /\ OrderShift(p, "startOrder", "tx")

\* commit of: order.update(in_progress), orderAttempt.create(in_progress)
StartOrderCommit(p) ==
  /\ ReadyToCommit(p, "startOrder")
  /\ IF ById(orders, req[p].a.id) = {}
       THEN /\ Finish(p, errorMiddleware("P2025"))
            /\ UNCHANGED <<today, db>>
       ELSE IF ById(shifts, req[p].l.shiftId) = {}
       THEN /\ Finish(p, errorMiddleware("P2003"))
            /\ UNCHANGED <<today, db>>
       ELSE LET old == RowOf(orders, req[p].a.id)
            IN /\ nextId.attempt <= MaxAttempts
               /\ orders' = (orders \ {old}) \cup {[old EXCEPT !.status = "in_progress"]}
               /\ attempts' = attempts \cup
                    {[id |-> nextId.attempt, orderId |-> req[p].a.id, shiftId |-> req[p].l.shiftId,
                      status |-> "in_progress", failureReason |-> Null, completedAt |-> Null]}
               /\ nextId' = [nextId EXCEPT !.attempt = @ + 1]
               /\ Finish(p, "ok")
               /\ UNCHANGED <<today, allocs, shifts, inventory, credit, gps>>

\* POST /orders/:id/complete
CompleteOrderBegin(p) ==
  \E id \in 1..MaxOrders, d \in Drivers :
    /\ Begin(p, "completeOrder", "get", [NoArgs EXCEPT !.id = id, !.driverId = d])
    /\ UNCHANGED <<today, db>>

\* the handler keeps the order it read: destination, product and quantity
CompleteOrderGet(p) ==
  /\ req[p].op = "completeOrder"
  /\ OrderGet(p, "completeOrder", {st \in OrderStatus : Completable(st)}, TRUE)

CompleteOrderShift(p) ==
  /\ req[p].op = "completeOrder"
  /\ OrderShift(p, "completeOrder", "attempt")

CompleteOrderAttempt(p) ==
  /\ At(p, "completeOrder", "attempt")
  /\ \E a \in OpenAttempts(req[p].a.id, req[p].l.shiftId) :
       IF a = NoRow
         THEN Finish(p, "BadRequest")
         ELSE Goto(p, "tx", [req[p].l EXCEPT !.otherId = a.id])
  /\ UNCHANGED <<today, db>>

\* upsert with update: { quantity: order.quantity }: the stock is overwritten
InventoryCreditOverwrite(rows, loc, prod, q) ==
  {i \in rows : ~(i.locationId = loc /\ i.productId = prod)}
    \cup {[locationId |-> loc, productId |-> prod, quantity |-> q]}

\* inventory.upsert: update { quantity: { increment } } or create { quantity }
InventoryCredit(rows, loc, prod, q) ==
  {i \in rows : ~(i.locationId = loc /\ i.productId = prod)}
    \cup {[locationId |-> loc, productId |-> prod,
           quantity |-> IF \E i \in rows : i.locationId = loc /\ i.productId = prod
                          THEN (CHOOSE i \in rows : i.locationId = loc /\ i.productId = prod).quantity + q
                          ELSE q]}

\* an update of the attempt that sets the status alone
AttemptStatusOnly(att) == [att EXCEPT !.status = "completed"]

\* orderAttempt.update({ status: 'completed', completedAt: new Date() })
AttemptCompleted(att) == [att EXCEPT !.status = "completed", !.completedAt = 1]

\* commit of: order.update(completed), orderAttempt.update(completed),
\* inventory.upsert(increment by the quantity read)
CompleteOrderCommit(p) ==
  /\ ReadyToCommit(p, "completeOrder")
  /\ LET o == req[p].l.row
     IN IF ById(orders, req[p].a.id) = {}
          THEN /\ Finish(p, errorMiddleware("P2025"))
               /\ UNCHANGED <<today, db>>
          ELSE IF ~req[p].l.found /\ InventoryRows(o.destinationId, o.productId) # {}
          THEN /\ Finish(p, errorMiddleware("P2002"))   \* the insert of the upsert lost a race
               /\ UNCHANGED <<today, db>>
          ELSE LET old == RowOf(orders, req[p].a.id)
                   att == RowOf(attempts, req[p].l.otherId)
                   inv == InventoryCredit(inventory, o.destinationId, o.productId, o.quantity)
               IN /\ \A i \in inv : i.quantity <= MaxStock
                  /\ orders' = (orders \ {old}) \cup {[old EXCEPT !.status = "completed"]}
                  /\ attempts' = (attempts \ {att}) \cup {AttemptCompleted(att)}
                  /\ inventory' = inv
                  /\ credit' = [credit EXCEPT ![req[p].a.id] = @ + o.quantity]
                  /\ Finish(p, "ok")
                  /\ UNCHANGED <<today, allocs, shifts, nextId, gps>>

\* POST /orders/:id/fail ; the validator requires a reason
FailOrderBegin(p) ==
  \E id \in 1..MaxOrders, d \in Drivers :
    /\ Begin(p, "failOrder", "get", [NoArgs EXCEPT !.id = id, !.driverId = d])
    /\ UNCHANGED <<today, db>>

FailOrderGet(p) ==
  /\ req[p].op = "failOrder"
  /\ OrderGet(p, "failOrder", {st \in OrderStatus : Failable(st)}, FALSE)

FailOrderShift(p) ==
  /\ req[p].op = "failOrder"
  /\ OrderShift(p, "failOrder", "attempt")

\* the attempt to resolve, if the order was started under this shift
FailOrderAttempt(p) ==
  /\ At(p, "failOrder", "attempt")
  /\ \E a \in OpenAttempts(req[p].a.id, req[p].l.shiftId) :
       Goto(p, "tx", [req[p].l EXCEPT !.otherId = a.id])
  /\ UNCHANGED <<today, db>>

\* commit of: order.update(failed), orderAttempt.update or create (failed)
FailOrderCommit(p) ==
  /\ ReadyToCommit(p, "failOrder")
  /\ IF ById(orders, req[p].a.id) = {}
       THEN /\ Finish(p, errorMiddleware("P2025"))
            /\ UNCHANGED <<today, db>>
       ELSE LET old == RowOf(orders, req[p].a.id)
            IN /\ orders' = (orders \ {old}) \cup {[old EXCEPT !.status = "failed"]}
               /\ IF req[p].l.otherId # Null
                    THEN LET att == RowOf(attempts, req[p].l.otherId)
                         IN /\ attempts' = (attempts \ {att}) \cup
                                 {[att EXCEPT !.status = "failed", !.failureReason = 1,
                                              !.completedAt = 1]}
                            /\ UNCHANGED nextId
                    ELSE /\ nextId.attempt <= MaxAttempts
                         /\ attempts' = attempts \cup
                              {[id |-> nextId.attempt, orderId |-> req[p].a.id,
                                shiftId |-> req[p].l.shiftId, status |-> "failed",
                                failureReason |-> 1, completedAt |-> 1]}
                         /\ nextId' = [nextId EXCEPT !.attempt = @ + 1]
               /\ Finish(p, "ok")
               /\ UNCHANGED <<today, allocs, shifts, inventory, credit, gps>>

(* --------------------------- Inventory Ledger -------------------------- *)
\* the id of an inventory row: rows are never deleted and there is one per
\* (location, product), so the ids are numbered by that pair
inventoryId(i) == (i.locationId - 1) * Cardinality(Products) + i.productId
InventoryIds == 1..(NumLocations * Cardinality(Products) + 1)
Adjustments == (0 - MaxQuantity)..MaxQuantity

\* the validator of POST /inventory: quantity min(0)
ValidQuantity(q) == q >= 0

\* POST /inventory
UpsertBegin(p) ==
  \E loc \in Locations \cup {UnknownId}, prod \in Products, q \in (0 - 1)..MaxStock :
    LET args == [NoArgs EXCEPT !.destinationId = loc, !.productId = prod, !.quantity = q]
    IN /\ IF ValidQuantity(q)
            THEN Begin(p, "upsert", "lookup", args)
            ELSE Reject(p, "upsert", args)
       /\ UNCHANGED <<today, db>>

\* Promise.all of the location and the product lookup
UpsertLookup(p) ==
  /\ At(p, "upsert", "lookup")
  /\ IF ~locationExists(req[p].a.destinationId) \/ ~productExists(req[p].a.productId)
       THEN Finish(p, "NotFound")
       ELSE Goto(p, "write", req[p].l)
  /\ UNCHANGED <<today, db>>

\* inventory.upsert: update { quantity } or create { quantity }
UpsertWrite(p) ==
  /\ At(p, "upsert", "write")
  /\ inventory' = {i \in inventory : ~(i.locationId = req[p].a.destinationId
                                        /\ i.productId = req[p].a.productId)}
                    \cup {[locationId |-> req[p].a.destinationId, productId |-> req[p].a.productId,
                           quantity |-> req[p].a.quantity]}
  /\ Finish(p, "ok")
  /\ UNCHANGED <<today, allocs, shifts, orders, attempts, nextId, credit, gps>>

\* PATCH /inventory/:id/adjust ; the adjustment may be positive or negative
AdjustBegin(p) ==
  \E id \in InventoryIds, delta \in Adjustments :
    /\ Begin(p, "adjust", "get", [NoArgs EXCEPT !.id = id, !.adjustment = delta])
    /\ UNCHANGED <<today, db>>

\* a handler that does not look at the sign of the result
AdjustGetUnchecked(p) ==
  /\ At(p, "adjust", "get")
  /\ IF \A i \in inventory : inventoryId(i) # req[p].a.id
       THEN Finish(p, "NotFound")
       ELSE LET i == CHOOSE i \in inventory : inventoryId(i) = req[p].a.id
            IN Goto(p, "write", [req[p].l EXCEPT !.row = i])
  /\ UNCHANGED <<today, db>>

\* getById, then newQuantity = inventory.quantity + adjustment and its check
AdjustGet(p) ==
  /\ At(p, "adjust", "get")
  /\ IF \A i \in inventory : inventoryId(i) # req[p].a.id
       THEN Finish(p, "NotFound")
       ELSE LET i == CHOOSE i \in inventory : inventoryId(i) = req[p].a.id
            IN IF i.quantity + req[p].a.adjustment < 0
                 THEN Finish(p, "Validation")
                 ELSE Goto(p, "write", [req[p].l EXCEPT !.row = i])
  /\ UNCHANGED <<today, db>>

\* inventory.update({ where: { id }, data: { quantity: newQuantity } })
AdjustWrite(p) ==
  /\ At(p, "adjust", "write")
  /\ LET newQuantity == req[p].l.row.quantity + req[p].a.adjustment
     IN /\ newQuantity <= MaxStock
        /\ inventory' = {IF inventoryId(i) = req[p].a.id
                           THEN [i EXCEPT !.quantity = newQuantity] ELSE i : i \in inventory}
  /\ Finish(p, "ok")
  /\ UNCHANGED <<today, allocs, shifts, orders, attempts, nextId, credit, gps>>

(* ---------------------------- start state ------------------------------ *)
Init ==
  /\ today = 1
  /\ allocs = {}
  /\ shifts = {}
  /\ orders = {}
  /\ attempts = {}
  /\ inventory = {}
  /\ gps = {}
  /\ nextId = [alloc |-> 1, shift |-> 1, order |-> 1, attempt |-> 1, gps |-> 1]
  /\ credit = [o \in 1..MaxOrders |-> 0]
  /\ req = [p \in Slots |-> Idle]

\* allocate, modify and release calls, one after the other
NextAlloc ==
  \E p \in SeqSlots :
    \/ AllocateBegin(p) \/ AllocateLookup(p) \/ AllocateCreate(p)
    \/ ModifyBegin(p) \/ ModifyGet(p) \/ ModifyCheckShift(p) \/ ModifyWrite(p)
    \/ ReleaseBegin(p) \/ ReleaseGet(p) \/ ReleaseCount(p) \/ ReleaseDelete(p)
    \/ Return(p)

SpecAlloc == Init /\ [][NextAlloc]_vars

\* any allocations that the unique keys admit: each vehicle is given to at
\* most one driver a day, and each driver has at most one vehicle a day
InitAnyAllocations ==
  /\ today = 1
  /\ \E holder \in [Vehicles \X Days -> Drivers \cup {Null}] :
       /\ \A v, w \in Vehicles, t \in Days :
            (v # w /\ holder[<<v, t>>] # Null) => holder[<<v, t>>] # holder[<<w, t>>]
       /\ allocs = {[id |-> (k[1] - 1) * MaxDay + k[2], vehicleId |-> k[1],
                     driverId |-> holder[k], allocationDate |-> k[2]] :
                      k \in {x \in Vehicles \X Days : holder[x] # Null}}
  /\ shifts = {}
  /\ orders = {}
  /\ attempts = {}
  /\ inventory = {}
  /\ gps = {}
  /\ nextId = [alloc |-> NumVehicles * MaxDay + 1, shift |-> 1, order |-> 1, attempt |-> 1, gps |-> 1]
  /\ credit = [o \in 1..MaxOrders |-> 0]
  /\ req = [p \in Slots |-> Idle]

\* the dispatcher asks which vehicles are free, day by day
NextAvailability ==
  \E p \in SeqSlots :
    \/ AvailableBegin(p) \/ AvailableAllocated(p) \/ AvailableVehicles(p)
    \/ Return(p)

SpecAvailability == InitAnyAllocations /\ [][NextAvailability]_vars

\* allocate calls, one after the other, while the days pass
NextCalendar ==
  \/ Tick
  \/ \E p \in SeqSlots :
       \/ AllocateBegin(p) \/ AllocateLookup(p) \/ AllocateCreate(p)
       \/ Return(p)

SpecCalendar == Init /\ [][NextCalendar]_vars

\* every driver that has a vehicle of their own holds it on every day: the
\* state after one allocate call per driver and day
InitShift ==
  /\ today = 1
  /\ allocs = {[id |-> (d - 1) * MaxDay + t, vehicleId |-> d, driverId |-> d, allocationDate |-> t] :
                 d \in Drivers \cap Vehicles, t \in Days}
  /\ shifts = {}
  /\ orders = {}
  /\ attempts = {}
  /\ inventory = {}
  /\ gps = {}
  /\ nextId = [alloc |-> NumDrivers * MaxDay + 1, shift |-> 1, order |-> 1, attempt |-> 1, gps |-> 1]
  /\ credit = [o \in 1..MaxOrders |-> 0]
  /\ req = [p \in Slots |-> Idle]

\* shifts started and ended by concurrent requests while the days pass
NextShift ==
  \/ Tick
  \/ \E p \in Slots :
       \/ StartBegin(p) \/ StartDriver(p) \/ StartCheckActive(p) \/ StartCheckAlloc(p)
       \/ StartFindShift(p) \/ StartWrite(p)
       \/ EndBegin(p) \/ EndGet(p) \/ EndCheckOrders(p) \/ EndWrite(p)
       \/ Return(p)

SpecShift == InitShift /\ [][NextShift]_vars

\* some drivers hold their vehicle on some days, and nobody has a shift yet
InitRoster ==
  /\ today = 1
  /\ \E held \in SUBSET ((Drivers \cap Vehicles) \X Days) :
       allocs = {[id |-> (h[1] - 1) * MaxDay + h[2], vehicleId |-> h[1], driverId |-> h[1],
                  allocationDate |-> h[2]] : h \in held}
  /\ shifts = {}
  /\ orders = {}
  /\ attempts = {}
  /\ inventory = {}
  /\ gps = {}
  /\ nextId = [alloc |-> NumDrivers * MaxDay + 1, shift |-> 1, order |-> 1, attempt |-> 1, gps |-> 1]
  /\ credit = [o \in 1..MaxOrders |-> 0]
  /\ req = [p \in Slots |-> Idle]

\* shifts scheduled, started and ended, one call after the other, while the
\* days pass
NextRoster ==
  \/ Tick
  \/ \E p \in SeqSlots :
       \/ ScheduleBegin(p) \/ ScheduleDriver(p) \/ ScheduleFind(p) \/ ScheduleCreate(p)
       \/ StartBegin(p) \/ StartDriver(p) \/ StartCheckActive(p) \/ StartCheckAlloc(p)
       \/ StartFindShift(p) \/ StartWrite(p)
       \/ EndBegin(p) \/ EndGet(p) \/ EndCheckOrders(p) \/ EndWrite(p)
       \/ Return(p)

SpecRoster == InitRoster /\ [][NextRoster]_vars

\* startShift requests racing modify and release requests on the allocations,
\* one request per slot
NextShiftAlloc ==
  \E p \in Slots :
    \/ StartBegin(p) \/ StartDriver(p) \/ StartCheckActive(p) \/ StartCheckAlloc(p)
    \/ StartFindShift(p) \/ StartWrite(p)
    \/ ModifyBegin(p) \/ ModifyGet(p) \/ ModifyCheckShift(p) \/ ModifyWrite(p)
    \/ ReleaseBegin(p) \/ ReleaseGet(p) \/ ReleaseCount(p) \/ ReleaseDelete(p)

SpecShiftAlloc == InitRoster /\ [][NextShiftAlloc]_vars

\* schedule and startShift requests racing each other, one request per slot
NextScheduleRace ==
  \E p \in Slots :
    \/ ScheduleBegin(p) \/ ScheduleDriver(p) \/ ScheduleFind(p) \/ ScheduleCreate(p)
    \/ StartBegin(p) \/ StartDriver(p) \/ StartCheckActive(p) \/ StartCheckAlloc(p)
    \/ StartFindShift(p) \/ StartWrite(p)

SpecScheduleRace == InitShift /\ [][NextScheduleRace]_vars

\* the allocations are modified and released while shifts are started and
\* ended, one call after the other
NextFleet ==
  \E p \in SeqSlots :
    \/ StartBegin(p) \/ StartDriver(p) \/ StartCheckActive(p) \/ StartCheckAlloc(p)
    \/ StartFindShift(p) \/ StartWrite(p)
    \/ EndBegin(p) \/ EndGet(p) \/ EndCheckOrders(p) \/ EndWrite(p)
    \/ ModifyBegin(p) \/ ModifyGet(p) \/ ModifyCheckShift(p) \/ ModifyWrite(p)
    \/ ReleaseBegin(p) \/ ReleaseGet(p) \/ ReleaseCount(p) \/ ReleaseDelete(p)
    \/ Return(p)

SpecFleet == InitShift /\ [][NextFleet]_vars

\* the same calls while the days pass
NextFleetDays ==
  \/ Tick
  \/ NextFleet

SpecFleetDays == InitShift /\ [][NextFleetDays]_vars

\* vehicles report their position while shifts are started and ended, one
\* call after the other
NextTelemetry ==
  \/ Tick
  \/ \E p \in SeqSlots :
       \/ StartBegin(p) \/ StartDriver(p) \/ StartCheckActive(p) \/ StartCheckAlloc(p)
       \/ StartFindShift(p) \/ StartWrite(p)
       \/ EndBegin(p) \/ EndGet(p) \/ EndCheckOrders(p) \/ EndWrite(p)
       \/ RecordGpsBegin(p) \/ RecordGpsVehicle(p) \/ RecordGpsShift(p) \/ RecordGpsCreate(p)
       \/ Return(p)

SpecTelemetry == InitShift /\ [][NextTelemetry]_vars

\* vehicles change hands from day to day: shifts are started and ended, one
\* call after the other, while the days pass
NextHandover ==
  \/ Tick
  \/ \E p \in SeqSlots :
       \/ StartBegin(p) \/ StartDriver(p) \/ StartCheckActive(p) \/ StartCheckAlloc(p)
       \/ StartFindShift(p) \/ StartWrite(p)
       \/ EndBegin(p) \/ EndGet(p) \/ EndCheckOrders(p) \/ EndWrite(p)
       \/ Return(p)

SpecHandover == InitAnyAllocations /\ [][NextHandover]_vars

\* a working day under way: every driver that has a vehicle holds an active
\* shift of day 1, and one order of driver 1 is assigned or already started
\* under that shift; some destinations have stock on record, some have none
InitDelivery ==
  /\ today = 1
  /\ allocs = {[id |-> (d - 1) * MaxDay + t, vehicleId |-> d, driverId |-> d, allocationDate |-> t] :
                 d \in Drivers \cap Vehicles, t \in Days}
  /\ shifts = {[id |-> d, driverId |-> d, shiftDate |-> 1, status |-> "active",
                startTime |-> 1, endTime |-> Null, vehicleAllocationId |-> (d - 1) * MaxDay + 1] :
                 d \in Drivers \cap Vehicles}
  /\ \E dest \in Locations, q \in 1..MaxQuantity, st \in {"assigned", "in_progress"} :
       /\ orders = {[id |-> 1, destinationId |-> dest, productId |-> 1, quantity |-> q,
                     status |-> st, assignedDriverId |-> 1, assignedDate |-> 1]}
       /\ attempts = IF st = "assigned" THEN {}
                     ELSE {[id |-> 1, orderId |-> 1, shiftId |-> 1, status |-> "in_progress",
                            failureReason |-> Null, completedAt |-> Null]}
       /\ nextId = [alloc |-> NumDrivers * MaxDay + 1, shift |-> NumDrivers + 1, order |-> 2,
                    attempt |-> IF st = "assigned" THEN 1 ELSE 2, gps |-> 1]
  /\ \E stocked \in SUBSET Locations :
       inventory = {[locationId |-> loc, productId |-> 1, quantity |-> 1] : loc \in stocked}
  /\ gps = {}
  /\ credit = [o \in 1..MaxOrders |-> 0]
  /\ req = [p \in Slots |-> Idle]

\* a delivery under way to a destination whose stock is on record: driver 1
\* is on shift with one order in_progress, and every location holds one unit
InitStocked ==
  /\ today = 1
  /\ allocs = {[id |-> (d - 1) * MaxDay + t, vehicleId |-> d, driverId |-> d, allocationDate |-> t] :
                 d \in Drivers \cap Vehicles, t \in Days}
  /\ shifts = {[id |-> 1, driverId |-> 1, shiftDate |-> 1, status |-> "active",
                startTime |-> 1, endTime |-> Null, vehicleAllocationId |-> 1]}
  /\ \E dest \in Locations, q \in 1..MaxQuantity :
       orders = {[id |-> 1, destinationId |-> dest, productId |-> 1, quantity |-> q,
                  status |-> "in_progress", assignedDriverId |-> 1, assignedDate |-> 1]}
  /\ attempts = {[id |-> 1, orderId |-> 1, shiftId |-> 1, status |-> "in_progress",
                  failureReason |-> Null, completedAt |-> Null]}
  /\ inventory = {[locationId |-> loc, productId |-> 1, quantity |-> 1] : loc \in Locations}
  /\ gps = {}
  /\ nextId = [alloc |-> NumDrivers * MaxDay + 1, shift |-> 2, order |-> 2, attempt |-> 2, gps |-> 1]
  /\ credit = [o \in 1..MaxOrders |-> 0]
  /\ req = [p \in Slots |-> Idle]

\* adjust, completeOrder and update requests racing each other, one request
\* per slot
NextLedgerRace ==
  \E p \in Slots :
    \/ AdjustBegin(p) \/ AdjustGet(p) \/ AdjustWrite(p)
    \/ UpdateOrderBegin(p) \/ UpdateOrderGet(p) \/ UpdateOrderWrite(p)
    \/ CompleteOrderBegin(p) \/ CompleteOrderGet(p) \/ CompleteOrderShift(p)
    \/ CompleteOrderAttempt(p) \/ CompleteOrderCommit(p)
    \/ TxWrite(p) \/ TxAbort(p)

SpecLedgerRace == InitStocked /\ [][NextLedgerRace]_vars

\* driver 1 is on shift on day 1 with one order assigned to them, for that
\* day or a later one; every driver that has a vehicle holds it on every day
InitCarryOver ==
  /\ today = 1
  /\ allocs = {[id |-> (d - 1) * MaxDay + t, vehicleId |-> d, driverId |-> d, allocationDate |-> t] :
                 d \in Drivers \cap Vehicles, t \in Days}
  /\ shifts = {[id |-> 1, driverId |-> 1, shiftDate |-> 1, status |-> "active",
                startTime |-> 1, endTime |-> Null, vehicleAllocationId |-> 1]}
  /\ \E dest \in Locations, q \in 1..MaxQuantity, t \in Days :
       orders = {[id |-> 1, destinationId |-> dest, productId |-> 1, quantity |-> q,
                  status |-> "assigned", assignedDriverId |-> 1, assignedDate |-> t]}
  /\ attempts = {}
  /\ inventory = {}
  /\ gps = {}
  /\ nextId = [alloc |-> NumDrivers * MaxDay + 1, shift |-> 2, order |-> 2, attempt |-> 1, gps |-> 1]
  /\ credit = [o \in 1..MaxOrders |-> 0]
  /\ req = [p \in Slots |-> Idle]

\* the drivers start, work and end their shifts from day to day, one call
\* after the other; no transaction is aborted by the storage
NextCarryOver ==
  \/ Tick
  \/ \E p \in SeqSlots :
       \/ StartBegin(p) \/ StartDriver(p) \/ StartCheckActive(p) \/ StartCheckAlloc(p)
       \/ StartFindShift(p) \/ StartWrite(p)
       \/ EndBegin(p) \/ EndGet(p) \/ EndCheckOrders(p) \/ EndWrite(p)
       \/ StartOrderBegin(p) \/ StartOrderGet(p) \/ StartOrderShift(p) \/ StartOrderCommit(p)
       \/ CompleteOrderBegin(p) \/ CompleteOrderGet(p) \/ CompleteOrderShift(p)
       \/ CompleteOrderAttempt(p) \/ CompleteOrderCommit(p)
       \/ TxWrite(p)
       \/ Return(p)

SpecCarryOver == InitCarryOver /\ [][NextCarryOver]_vars

\* the open orders that hold the active shift of driver d open
Blocking(d) ==
  {o \in orders : /\ o.assignedDriverId = d
                  /\ o.status \in {"assigned", "in_progress"}
                  /\ \E s \in shifts : /\ s.driverId = d /\ s.status = "active"
                                       /\ o.assignedDate = s.shiftDate}

\* driver d reports an order that holds their shift open as failed
FailBlocking(p, d) ==
  /\ FailOrderBegin(p)
  /\ req'[p].a.driverId = d
  /\ \E o \in Blocking(d) : req'[p].a.id = o.id

\* driver d asks to end their own active shift
ClockOut(p, d) ==
  /\ EndBegin(p)
  /\ req'[p].a.driverId = d
  /\ \E s \in shifts : s.driverId = d /\ s.status = "active" /\ req'[p].a.id = s.id

\* the steps of a request that has been received, up to its answer
HandlerStep(p) ==
  \/ StartDriver(p) \/ StartCheckActive(p) \/ StartCheckAlloc(p)
  \/ StartFindShift(p) \/ StartWrite(p)
  \/ EndGet(p) \/ EndCheckOrders(p) \/ EndWrite(p)
  \/ StartOrderGet(p) \/ StartOrderShift(p) \/ StartOrderCommit(p)
  \/ CompleteOrderGet(p) \/ CompleteOrderShift(p)
  \/ CompleteOrderAttempt(p) \/ CompleteOrderCommit(p)
  \/ FailOrderGet(p) \/ FailOrderShift(p) \/ FailOrderAttempt(p) \/ FailOrderCommit(p)
  \/ TxWrite(p)
  \/ Return(p)

\* the drivers work from day to day and no order is assigned any more; a
\* shift is asked for only while the table has room for one
NextClockOut ==
  \/ Tick
  \/ \E p \in SeqSlots :
       \/ (nextId.shift <= MaxShifts /\ StartBegin(p))
       \/ EndBegin(p) \/ StartOrderBegin(p)
       \/ CompleteOrderBegin(p) \/ FailOrderBegin(p)
       \/ HandlerStep(p)

\* every request received is answered, and a driver on shift keeps trying to
\* fail the orders that hold the shift open and to end the shift
SpecClockOut ==
  /\ InitCarryOver /\ [][NextClockOut]_vars
  /\ WF_vars(\E p \in SeqSlots : HandlerStep(p))
  /\ \A d \in Drivers : /\ SF_vars(\E p \in SeqSlots : FailBlocking(p, d))
                        /\ SF_vars(\E p \in SeqSlots : ClockOut(p, d))

\* completeOrder requests racing each other, one request per slot
NextCompleteRace ==
  \E p \in Slots :
    \/ CompleteOrderBegin(p) \/ CompleteOrderGet(p) \/ CompleteOrderShift(p)
    \/ CompleteOrderAttempt(p) \/ TxWrite(p) \/ TxAbort(p) \/ CompleteOrderCommit(p)

SpecCompleteRace == InitDelivery /\ [][NextCompleteRace]_vars

\* the driver actions start, complete and fail racing each other, one request
\* per slot
NextDelivery ==
  \E p \in Slots :
    \/ StartOrderBegin(p) \/ StartOrderGet(p) \/ StartOrderShift(p) \/ StartOrderCommit(p)
    \/ CompleteOrderBegin(p) \/ CompleteOrderGet(p) \/ CompleteOrderShift(p)
    \/ CompleteOrderAttempt(p) \/ CompleteOrderCommit(p)
    \/ FailOrderBegin(p) \/ FailOrderGet(p) \/ FailOrderShift(p) \/ FailOrderAttempt(p)
    \/ FailOrderCommit(p)
    \/ TxWrite(p) \/ TxAbort(p)

SpecDelivery == InitDelivery /\ [][NextDelivery]_vars

\* the drivers work through the day and end their shifts, one call after the
\* other, while the dispatcher re-assigns the order
NextWorkday ==
  \E p \in SeqSlots :
    \/ EndBegin(p) \/ EndGet(p) \/ EndCheckOrders(p) \/ EndWrite(p)
    \/ AssignBegin(p) \/ AssignGet(p) \/ AssignDriver(p) \/ AssignWrite(p)
    \/ StartOrderBegin(p) \/ StartOrderGet(p) \/ StartOrderShift(p) \/ StartOrderCommit(p)
    \/ CompleteOrderBegin(p) \/ CompleteOrderGet(p) \/ CompleteOrderShift(p)
    \/ CompleteOrderAttempt(p) \/ CompleteOrderCommit(p)
    \/ FailOrderBegin(p) \/ FailOrderGet(p) \/ FailOrderShift(p) \/ FailOrderAttempt(p)
    \/ FailOrderCommit(p)
    \/ TxWrite(p) \/ TxAbort(p)
    \/ Return(p)

SpecWorkday == InitDelivery /\ [][NextWorkday]_vars

\* the stock is set and adjusted by hand while deliveries are completed, one
\* call after the other
NextInventory ==
  \E p \in SeqSlots :
    \/ UpsertBegin(p) \/ UpsertLookup(p) \/ UpsertWrite(p)
    \/ AdjustBegin(p) \/ AdjustGet(p) \/ AdjustWrite(p)
    \/ StartOrderBegin(p) \/ StartOrderGet(p) \/ StartOrderShift(p) \/ StartOrderCommit(p)
    \/ CompleteOrderBegin(p) \/ CompleteOrderGet(p) \/ CompleteOrderShift(p)
    \/ CompleteOrderAttempt(p) \/ CompleteOrderCommit(p)
    \/ TxWrite(p) \/ TxAbort(p)
    \/ Return(p)

SpecInventory == InitDelivery /\ [][NextInventory]_vars

\* assign requests racing startOrder requests, one request per slot
NextAssignRace ==
  \E p \in Slots :
    \/ AssignBegin(p) \/ AssignGet(p) \/ AssignDriver(p) \/ AssignWrite(p)
    \/ StartOrderBegin(p) \/ StartOrderGet(p) \/ StartOrderShift(p) \/ StartOrderCommit(p)
    \/ TxWrite(p) \/ TxAbort(p)

SpecAssignRace == InitDelivery /\ [][NextAssignRace]_vars

\* the drivers are on shift and no order exists yet
InitOrder ==
  /\ today = 1
  /\ allocs = {[id |-> (d - 1) * MaxDay + t, vehicleId |-> d, driverId |-> d, allocationDate |-> t] :
                 d \in Drivers \cap Vehicles, t \in Days}
  /\ shifts = {[id |-> d, driverId |-> d, shiftDate |-> 1, status |-> "active",
                startTime |-> 1, endTime |-> Null, vehicleAllocationId |-> (d - 1) * MaxDay + 1] :
                 d \in Drivers \cap Vehicles}
  /\ orders = {}
  /\ attempts = {}
  /\ inventory = {}
  /\ gps = {}
  /\ nextId = [alloc |-> NumDrivers * MaxDay + 1, shift |-> NumDrivers + 1, order |-> 1, attempt |-> 1, gps |-> 1]
  /\ credit = [o \in 1..MaxOrders |-> 0]
  /\ req = [p \in Slots |-> Idle]

\* endShift requests racing the requests that give a driver work, one request
\* per slot
NextShiftEndRace ==
  \E p \in Slots :
    \/ EndBegin(p) \/ EndGet(p) \/ EndCheckOrders(p) \/ EndWrite(p)
    \/ CreateOrderBegin(p) \/ CreateOrderLookup(p) \/ CreateOrderDriver(p) \/ CreateOrderInsert(p)
    \/ AssignBegin(p) \/ AssignGet(p) \/ AssignDriver(p) \/ AssignWrite(p)
    \/ StartOrderBegin(p) \/ StartOrderGet(p) \/ StartOrderShift(p) \/ StartOrderCommit(p)
    \/ TxWrite(p) \/ TxAbort(p)

SpecShiftEndRace == InitOrder /\ [][NextShiftEndRace]_vars

\* position reports racing endShift requests, one request per slot
NextTelemetryRace ==
  \E p \in Slots :
    \/ EndBegin(p) \/ EndGet(p) \/ EndCheckOrders(p) \/ EndWrite(p)
    \/ RecordGpsBegin(p) \/ RecordGpsVehicle(p) \/ RecordGpsShift(p) \/ RecordGpsCreate(p)

SpecTelemetryRace == InitOrder /\ [][NextTelemetryRace]_vars

\* the whole order service, one call after the other
NextOrder ==
  \E p \in SeqSlots :
    \/ CreateOrderBegin(p) \/ CreateOrderLookup(p) \/ CreateOrderDriver(p) \/ CreateOrderInsert(p)
    \/ UpdateOrderBegin(p) \/ UpdateOrderGet(p) \/ UpdateOrderWrite(p)
    \/ RemoveOrderBegin(p) \/ RemoveOrderGet(p) \/ RemoveOrderDelete(p)
    \/ AssignBegin(p) \/ AssignGet(p) \/ AssignDriver(p) \/ AssignWrite(p)
    \/ StartOrderBegin(p) \/ StartOrderGet(p) \/ StartOrderShift(p) \/ StartOrderCommit(p)
    \/ CompleteOrderBegin(p) \/ CompleteOrderGet(p) \/ CompleteOrderShift(p)
    \/ CompleteOrderAttempt(p) \/ CompleteOrderCommit(p)
    \/ FailOrderBegin(p) \/ FailOrderGet(p) \/ FailOrderShift(p) \/ FailOrderAttempt(p)
    \/ FailOrderCommit(p)
    \/ TxWrite(p) \/ TxAbort(p)
    \/ Return(p)

SpecOrder == InitOrder /\ [][NextOrder]_vars

\* the delivery workflow: the dispatcher creates and assigns orders, the
\* drivers start and complete them, one call after the other
NextRoundTrip ==
  \E p \in SeqSlots :
    \/ CreateOrderBegin(p) \/ CreateOrderLookup(p) \/ CreateOrderDriver(p) \/ CreateOrderInsert(p)
    \/ AssignBegin(p) \/ AssignGet(p) \/ AssignDriver(p) \/ AssignWrite(p)
    \/ StartOrderBegin(p) \/ StartOrderGet(p) \/ StartOrderShift(p) \/ StartOrderCommit(p)
    \/ CompleteOrderBegin(p) \/ CompleteOrderGet(p) \/ CompleteOrderShift(p)
    \/ CompleteOrderAttempt(p) \/ CompleteOrderCommit(p)
    \/ TxWrite(p) \/ TxAbort(p)
    \/ Return(p)

SpecRoundTrip == InitOrder /\ [][NextRoundTrip]_vars

\* the dispatcher creates, assigns and deletes orders while the drivers start
\* them, one call after the other
NextBacklog ==
  \E p \in SeqSlots :
    \/ CreateOrderBegin(p) \/ CreateOrderLookup(p) \/ CreateOrderDriver(p) \/ CreateOrderInsert(p)
    \/ RemoveOrderBegin(p) \/ RemoveOrderGet(p) \/ RemoveOrderDelete(p)
    \/ AssignBegin(p) \/ AssignGet(p) \/ AssignDriver(p) \/ AssignWrite(p)
    \/ StartOrderBegin(p) \/ StartOrderGet(p) \/ StartOrderShift(p) \/ StartOrderCommit(p)
    \/ TxWrite(p) \/ TxAbort(p)
    \/ Return(p)

SpecBacklog == InitOrder /\ [][NextBacklog]_vars

\* allocate requests racing each other, one request per slot
NextAllocRace ==
  \E p \in Slots :
    AllocateBegin(p) \/ AllocateLookup(p) \/ AllocateCreate(p)

SpecAllocRace == Init /\ [][NextAllocRace]_vars

(* ------------------------ Allocation exclusivity ----------------------- *)
SameVehicleDay(x, v, t) == x.vehicleId = v /\ x.allocationDate = t
SameDriverDay(x, d, t)  == x.driverId = d /\ x.allocationDate = t

\* the insert of an allocate request p completes in this step
AllocateInserts(p) == At(p, "allocate", "create") /\ req'[p].pc = "done"

\* C5: at most one Allocation per (vehicleId, date) in every state reached by
\* allocate, modify and release calls; and while a row for (v, t) exists, the
\* insert of allocate(v, d2, t) with another driver d2 answers Conflict and
\* leaves the table as it is.
C5_VehicleExclusive ==
  /\ [](\A x, y \in allocs :
          SameVehicleDay(x, y.vehicleId, y.allocationDate) => x = y)
  /\ [][\A p \in Slots :
          (/\ AllocateInserts(p)
           /\ \E x \in allocs : /\ SameVehicleDay(x, req[p].a.vehicleId, req[p].a.date)
                                /\ x.driverId # req[p].a.driverId)
          => (req'[p].res = "Conflict" /\ allocs' = allocs)]_vars

\* an allocate was refused only because its vehicle is booked for that day
C5_Witness ==
  \E p \in Slots :
    /\ req[p].op = "allocate" /\ req[p].pc = "done" /\ req[p].res = "Conflict"
    /\ \E x \in allocs : /\ SameVehicleDay(x, req[p].a.vehicleId, req[p].a.date)
                         /\ x.driverId # req[p].a.driverId
    /\ ~\E x \in allocs : SameDriverDay(x, req[p].a.driverId, req[p].a.date)
    /\ Cardinality(allocs) = 2

\* C6: at most one Allocation per (driverId, date) in every state reached by
\* allocate, modify and release calls; and while a row for (d, t) exists, the
\* insert of allocate(v2, d, t) with another vehicle v2 answers Conflict and
\* leaves the table as it is.
C6_DriverExclusive ==
  /\ [](\A x, y \in allocs :
          SameDriverDay(x, y.driverId, y.allocationDate) => x = y)
  /\ [][\A p \in Slots :
          (/\ AllocateInserts(p)
           /\ \E x \in allocs : /\ SameDriverDay(x, req[p].a.driverId, req[p].a.date)
                                /\ x.vehicleId # req[p].a.vehicleId)
          => (req'[p].res = "Conflict" /\ allocs' = allocs)]_vars

\* an allocate was refused only because its driver has a vehicle that day
C6_Witness ==
  \E p \in Slots :
    /\ req[p].op = "allocate" /\ req[p].pc = "done" /\ req[p].res = "Conflict"
    /\ \E x \in allocs : /\ SameDriverDay(x, req[p].a.driverId, req[p].a.date)
                         /\ x.vehicleId # req[p].a.vehicleId
    /\ ~\E x \in allocs : SameVehicleDay(x, req[p].a.vehicleId, req[p].a.date)
    /\ Cardinality(allocs) = 2

\* two allocate requests collide on (vehicle, date) or on (driver, date)
Collide(a, b) ==
  /\ a.date = b.date
  /\ a.vehicleId = b.vehicleId \/ a.driverId = b.driverId

\* an allocate request that got as far as the insert, or will
Contender(p) ==
  /\ req[p].op = "allocate"
  /\ vehicleExists(req[p].a.vehicleId) /\ driverExists(req[p].a.driverId)

Answered(p) == req[p].pc = "done"

RowFor(a) == {x \in allocs : x.vehicleId = a.vehicleId /\ x.driverId = a.driverId
                              /\ x.allocationDate = a.date}

\* C7: of two allocate requests that collide with each other and with no third
\* request, in every interleaving one is answered ok and the other Conflict;
\* the table never holds two colliding rows, and every row carries the three
\* fields of one request that was answered ok.
C7_RaceOneWinner ==
  /\ \A p, q \in Slots :
       (/\ p # q /\ Contender(p) /\ Contender(q) /\ Answered(p) /\ Answered(q)
        /\ Collide(req[p].a, req[q].a)
        /\ \A o \in Slots \ {p, q} :
             Contender(o) => ~Collide(req[o].a, req[p].a) /\ ~Collide(req[o].a, req[q].a))
       => \E w \in {p, q} :
            /\ req[w].res = "ok"
            /\ \A o \in {p, q} \ {w} : req[o].res = "Conflict"
            /\ Cardinality(RowFor(req[w].a)) = 1
  /\ \A x, y \in allocs :
       (x.allocationDate = y.allocationDate
          /\ (x.vehicleId = y.vehicleId \/ x.driverId = y.driverId)) => x = y
  /\ \A x \in allocs :
       \E p \in Slots : Contender(p) /\ Answered(p) /\ req[p].res = "ok" /\ x \in RowFor(req[p].a)

\* both racers are answered: one ok, one Conflict, and they differ in a field
C7_Witness ==
  \E p, q \in Slots :
    /\ p # q /\ Contender(p) /\ Contender(q) /\ Answered(p) /\ Answered(q)
    /\ Collide(req[p].a, req[q].a) /\ req[p].a # req[q].a
    /\ req[p].res = "ok" /\ req[q].res = "Conflict"

(* ------------------------ One active shift per driver ------------------ *)
\* C10: in every state, also with startShift requests of one driver
\* interleaving and the date advancing between them, a driver has at most one
\* shift with status active.
C10_OneActiveShift ==
  \A d \in Drivers : Cardinality(ActiveShifts(d)) <= 1

(* ------------------------ Credit on completion ------------------------- *)
\* C1: in every state the inventory credited on behalf of an order is the
\* order's quantity if the order is completed and 0 otherwise, also when
\* completeOrder requests for the same order run concurrently.
C1_CreditedOncePerOrder ==
  \A o \in orders :
    credit[o.id] = IF o.status = "completed" THEN o.quantity ELSE 0

\* the transaction of a completeOrder request p commits in this step
CompleteCommits(p) == ReadyToCommit(p, "completeOrder") /\ req'[p].res = "ok"

SameStock(i, loc, prod) == i.locationId = loc /\ i.productId = prod

\* C2: the commit of a successful completeOrder leaves the order completed
\* and the attempt it found under the caller's active shift completed, and
\* raises the stock of (destination, product) of the order the handler read
\* by that order's quantity, creating the row with that quantity when there
\* is none; every other inventory row stays as it is.
C2_CompleteEffects ==
  [][\A p \in Slots :
       CompleteCommits(p) =>
         LET o == req[p].l.row
             before == {i \in inventory : SameStock(i, o.destinationId, o.productId)}
             after  == {i \in inventory' : SameStock(i, o.destinationId, o.productId)}
         IN /\ \E r \in orders' : r.id = req[p].a.id /\ r.status = "completed"
            /\ \E a \in attempts' : /\ a.id = req[p].l.otherId
                                    /\ a.orderId = req[p].a.id
                                    /\ a.shiftId = req[p].l.shiftId
                                    /\ a.status = "completed" /\ a.completedAt # Null
            /\ Cardinality(after) = 1
            /\ \A i \in after :
                 i.quantity = IF before = {} THEN o.quantity
                              ELSE (CHOOSE b \in before : TRUE).quantity + o.quantity
            /\ inventory' \ after = inventory \ before]_vars

\* a completeOrder was answered ok: the order and its attempt are completed
\* and the destination holds more than the one unit it had in stock
C2_Witness ==
  \E p \in Slots :
    /\ req[p].op = "completeOrder" /\ req[p].pc = "done" /\ req[p].res = "ok"
    /\ \E o \in orders :
         /\ o.id = req[p].a.id /\ o.status = "completed"
         /\ \E a \in attempts : a.orderId = o.id /\ a.status = "completed"
         /\ \E i \in inventory : SameStock(i, o.destinationId, o.productId) /\ i.quantity > 1
         /\ \E i \in inventory : ~SameStock(i, o.destinationId, o.productId)

\* C3: a step of a completeOrder transaction other than its successful
\* commit (one of its writes, a failed write, a timeout, an abort) changes no
\* order, no attempt and no inventory row.
C3_NoPartialCompletion ==
  [][\A p \in Slots :
       (At(p, "completeOrder", "tx") /\ req'[p] # req[p] /\ req'[p].res # "ok")
       => (orders' = orders /\ attempts' = attempts /\ inventory' = inventory)]_vars

\* a completeOrder was aborted inside its transaction; the order and its
\* attempt are in_progress and nothing was credited
C3_Witness ==
  \E p \in Slots :
    /\ req[p].op = "completeOrder" /\ req[p].pc = "done" /\ req[p].res = "Internal"
    /\ \E o \in orders :
         /\ o.id = req[p].a.id /\ o.status = "in_progress" /\ credit[o.id] = 0
         /\ \E a \in attempts : a.orderId = o.id /\ a.status = "in_progress"
         /\ \A a \in attempts : a.orderId = o.id => a.status = "in_progress"

\* C4: the commit of failOrder changes no inventory row, and in every state,
\* also when failOrder and completeOrder interleave on one order, an order
\* whose status is failed has caused no inventory credit.
C4_FailedOrderNoCredit ==
  /\ [](\A o \in orders : o.status = "failed" => credit[o.id] = 0)
  /\ [][\A p \in Slots :
          (ReadyToCommit(p, "failOrder") /\ req'[p] # req[p]) => inventory' = inventory]_vars

(* ------------------------ Order state machine -------------------------- *)
Transitions ==
  { <<"pending", "assigned">>, <<"assigned", "in_progress">>, <<"in_progress", "completed">>,
    <<"assigned", "failed">>, <<"in_progress", "failed">> }

\* C8: every change of an order's status made by an operation of the order
\* service is one of the transitions of the state machine (an assigned order
\* may be assigned again); a completed or failed order keeps its status.
C8_StatusStateMachine ==
  [][\A o \in orders : \A n \in orders' :
       (n.id = o.id /\ n.status # o.status) => <<o.status, n.status>> \in Transitions]_vars

\* C9: assign on an order that failOrder has failed passes the status check
\* for every existing driver (and so goes on to move the order to assigned).
C9_FailedOrderReassignable ==
  [][\A p \in Slots :
       (/\ At(p, "assign", "get") /\ req'[p] # req[p]
        /\ driverExists(req[p].a.driverId)
        /\ \E o \in orders : /\ o.id = req[p].a.id /\ o.status = "failed"
                             /\ \E a \in attempts : a.orderId = o.id /\ a.status = "failed")
       => req'[p].pc = "driver"]_vars

(* ------------------------ Starting a shift ----------------------------- *)
\* the startShift request p is answered in this step
StartAnswers(p) == req[p].op = "startShift" /\ req[p].pc # "done" /\ req'[p].pc = "done"

HeldOn(d, t) == \E a \in allocs : a.driverId = d /\ a.allocationDate = t

\* C11: a startShift call for a driver who has an active shift, of whatever
\* date, is answered Conflict, and the step that answers it changes no shift.
C11_ActiveShiftConflict ==
  [][\A p \in Slots :
       (StartAnswers(p) /\ ActiveShifts(req[p].a.driverId) # {})
       => (req'[p].res = "Conflict" /\ shifts' = shifts)]_vars

\* startShift was answered Conflict for a driver whose active shift is of
\* an earlier day, on a day the driver holds a vehicle
C11_Witness ==
  \E p \in Slots :
    /\ req[p].op = "startShift" /\ req[p].pc = "done" /\ req[p].res = "Conflict"
    /\ \E x \in ActiveShifts(req[p].a.driverId) : x.shiftDate < today
    /\ HeldOn(req[p].a.driverId, today)

\* C12: startShift is answered ok only at its write and only when the driver
\* holds an allocation on the date the call took as today; a call for a known
\* driver without an active shift and without such an allocation is answered
\* BadRequest and changes no shift.
C12_AllocationRequired ==
  [][\A p \in Slots :
       StartAnswers(p) =>
         LET d == req[p].a.driverId
             held == HeldOn(d, req[p].l.date)
         IN /\ req'[p].res = "ok" => (req[p].pc = "write" /\ held)
            /\ (driverExists(d) /\ ActiveShifts(d) = {} /\ ~held)
                 => (req'[p].res = "BadRequest" /\ shifts' = shifts)]_vars

\* startShift was answered BadRequest for a driver who holds a vehicle on
\* another day but not today
C12_Witness ==
  \E p \in Slots :
    /\ req[p].op = "startShift" /\ req[p].pc = "done" /\ req[p].res = "BadRequest"
    /\ today = 1 /\ shifts = {}
    /\ ~HeldOn(req[p].a.driverId, 1)
    /\ \E t \in Days : HeldOn(req[p].a.driverId, t)

(* ------------------------ Shift state machine -------------------------- *)
ShiftTransitions == {<<"scheduled", "active">>, <<"active", "completed">>}

\* C13: a shift is created scheduled or active, and its status changes only
\* scheduled -> active and active -> completed; a completed shift stays
\* completed.
C13_ShiftStateMachine ==
  [][/\ \A x \in shifts : \A n \in shifts' :
          (n.id = x.id /\ n.status # x.status) => <<x.status, n.status>> \in ShiftTransitions
     /\ \A n \in shifts' : ById(shifts, n.id) = {} => n.status \in {"scheduled", "active"}]_vars

(* ------------------------ Active shift and allocation ------------------ *)
\* C14: in every state, also when modify and release requests interleave
\* with startShift, every active shift refers to an existing allocation of
\* the shift's driver and the shift's date.
C14_ActiveShiftAllocation ==
  \A x \in shifts :
    x.status = "active" =>
      /\ x.vehicleAllocationId # Null
      /\ \E a \in allocs : /\ a.id = x.vehicleAllocationId
                           /\ a.allocationDate = x.shiftDate
                           /\ a.driverId = x.driverId

(* ------------------------ Ending a shift ------------------------------- *)
\* the endShift request p is answered in this step
EndAnswers(p) == req[p].op = "endShift" /\ req[p].pc # "done" /\ req'[p].pc = "done"

OpenOrders(d, t) ==
  {o \in orders : o.assignedDriverId = d /\ o.assignedDate = t
                  /\ o.status \in {"assigned", "in_progress"}}

\* C15: an endShift call on an active shift of the calling driver is answered
\* BadRequest and changes no shift while the driver has an assigned or
\* in_progress order dated the shift's date; otherwise it is answered ok and
\* the shift, and no other, becomes completed with an end time. No step of
\* endShift changes an order.
C15_EndShiftBlocked ==
  [][\A p \in Slots :
       /\ (req[p].op = "endShift" /\ req'[p] # req[p]) => orders' = orders
       /\ \A x \in shifts :
            (EndAnswers(p) /\ x.id = req[p].a.id /\ x.driverId = req[p].a.driverId
             /\ x.status = "active")
            => IF OpenOrders(x.driverId, x.shiftDate) # {}
                 THEN req'[p].res = "BadRequest" /\ shifts' = shifts
                 ELSE /\ req'[p].res = "ok"
                      /\ shifts' = (shifts \ {x}) \cup
                           {[x EXCEPT !.status = "completed", !.endTime = 1]}]_vars

\* endShift was answered ok after the driver's order of the day had been
\* completed or failed
C15_Witness ==
  \E p \in Slots :
    /\ req[p].op = "endShift" /\ req[p].pc = "done" /\ req[p].res = "ok"
    /\ \E x \in shifts :
         /\ x.id = req[p].a.id /\ x.status = "completed" /\ x.endTime # Null
         /\ \E o \in orders : /\ o.assignedDriverId = x.driverId /\ o.assignedDate = x.shiftDate
                              /\ o.status \in {"completed", "failed"}

\* C16: in the step that makes a shift completed, in every interleaving of
\* endShift with createOrder, assign and startOrder, the shift's driver has
\* no assigned or in_progress order dated the shift's date.
C16_CompletedShiftNoOpenOrder ==
  [][\A x \in shifts : \A n \in shifts' :
       (n.id = x.id /\ x.status # "completed" /\ n.status = "completed")
       => \A o \in orders' :
            ~(/\ o.assignedDriverId = n.driverId /\ o.assignedDate = n.shiftDate
              /\ o.status \in {"assigned", "in_progress"})]_vars

(* ------------------------ Telemetry ------------------------------------ *)
\* the recordGps request p is answered in this step
GpsAnswers(p) == req[p].op = "recordGps" /\ req[p].pc # "done" /\ req'[p].pc = "done"

\* the active shifts that drive vehicle v
OnShift(v) ==
  {x \in shifts : x.status = "active" /\ x.vehicleAllocationId # Null
                  /\ RowOf(allocs, x.vehicleAllocationId).vehicleId = v}

\* C17: recordGps is answered NotFound for an unknown vehicle and BadRequest
\* for a known vehicle that no active shift drives, and then stores nothing;
\* answered ok it has stored exactly one location, of that vehicle, stamped
\* with the id of an active shift that drives it and with the time sent or,
\* without one, the time of the call.
C17_GpsGate ==
  [][\A p \in Slots :
       GpsAnswers(p) =>
         LET v == req[p].a.vehicleId
             gate == OnShift(v)
         IN /\ ~vehicleExists(v) => req'[p].res = "NotFound"
            /\ (vehicleExists(v) /\ gate = {}) => req'[p].res = "BadRequest"
            /\ req'[p].res # "ok" => gps' = gps
            /\ req'[p].res = "ok" =>
                 /\ Cardinality(gps' \ gps) = 1 /\ gps \subseteq gps'
                 /\ \A g \in gps' \ gps :
                      /\ g.vehicleId = v
                      /\ g.shiftId # Null /\ g.shiftId \in {x.id : x \in gate}
                      /\ g.recordedAt # Null
                      /\ g.recordedAt = req[p].a.recordedAt]_vars

\* a position was stored for a vehicle on shift while another vehicle's
\* driver was on shift too
C17_Witness ==
  \E p \in Slots :
    /\ req[p].op = "recordGps" /\ req[p].pc = "done" /\ req[p].res = "ok"
    /\ \E g \in gps : /\ g.vehicleId = req[p].a.vehicleId
                      /\ \E x \in OnShift(g.vehicleId) : x.id = g.shiftId
    /\ \E x \in shifts : x.status = "active" /\ x \notin OnShift(req[p].a.vehicleId)

\* C18: in the step that stores a location, in every interleaving of
\* recordGps with endShift, the shift the location is stamped with is active.
C18_PingUnderActiveShift ==
  [][\A g \in gps' \ gps :
       \E x \in shifts : x.id = g.shiftId /\ x.status = "active"]_vars

(* ------------------------ Starting an order ---------------------------- *)
\* the startOrder request p is answered in this step
StartOrderAnswers(p) == req[p].op = "startOrder" /\ req[p].pc # "done" /\ req'[p].pc = "done"

\* C19: startOrder is answered ok only for an assigned order of the calling
\* driver while that driver has an active shift; the step that answers ok
\* sets the order in_progress and adds exactly one attempt, in_progress, of
\* that order under an active shift of the driver; every other step of
\* startOrder leaves the orders and the attempts as they are.
C19_StartOrder ==
  [][\A p \in Slots :
       /\ (req[p].op = "startOrder" /\ req'[p] # req[p] /\ req'[p].res # "ok")
            => (orders' = orders /\ attempts' = attempts)
       /\ (StartOrderAnswers(p) /\ req'[p].res = "ok") =>
            LET d == req[p].a.driverId IN
            /\ \E o \in orders :
                 /\ o.id = req[p].a.id /\ o.status = "assigned" /\ o.assignedDriverId = d
                 /\ orders' = (orders \ {o}) \cup {[o EXCEPT !.status = "in_progress"]}
            /\ \E x \in shifts : x.driverId = d /\ x.status = "active"
            /\ attempts \subseteq attempts' /\ Cardinality(attempts' \ attempts) = 1
            /\ \A a \in attempts' \ attempts :
                 /\ a.orderId = req[p].a.id /\ a.status = "in_progress"
                 /\ \E x \in shifts : x.id = a.shiftId /\ x.driverId = d /\ x.status = "active"]_vars

\* startOrder was answered ok for an order that had been re-assigned to the
\* other driver: the order is in_progress with one attempt, under that
\* driver's active shift
C19_Witness ==
  \E p \in Slots :
    /\ req[p].op = "startOrder" /\ req[p].pc = "done" /\ req[p].res = "ok"
    /\ req[p].a.driverId # 1
    /\ \E o \in orders :
         /\ o.id = req[p].a.id /\ o.status = "in_progress"
         /\ o.assignedDriverId = req[p].a.driverId
         /\ Cardinality({a \in attempts : a.orderId = o.id}) = 1
         /\ \A a \in attempts : a.orderId = o.id =>
              /\ a.status = "in_progress"
              /\ \E x \in shifts : x.id = a.shiftId /\ x.driverId = o.assignedDriverId
                                   /\ x.status = "active"

(* ------------------------ Re-assignment -------------------------------- *)
\* C20: the assigned driver of an order changes only in a step that finds
\* the order pending or assigned, an assign call that finds it in_progress,
\* completed or failed is answered Conflict, and in every state, also when
\* assign and startOrder interleave, an in_progress attempt of an order is
\* under a shift of the driver the order is assigned to.
C20_ReassignOnlyBeforeStart ==
  /\ [](\A o \in orders : \A a \in attempts :
          (a.orderId = o.id /\ a.status = "in_progress")
          => \E x \in shifts : x.id = a.shiftId /\ x.driverId = o.assignedDriverId)
  /\ [][/\ \A o \in orders : \A n \in orders' :
             (n.id = o.id /\ n.assignedDriverId # o.assignedDriverId)
             => o.status \in {"pending", "assigned"}
        /\ \A p \in Slots : \A o \in orders :
             (/\ At(p, "assign", "get") /\ req'[p] # req[p] /\ o.id = req[p].a.id
              /\ o.status \in {"in_progress", "completed", "failed"})
             => (req'[p].res = "Conflict" /\ orders' = orders)]_vars

(* ------------------------ Status guard of the driver actions ----------- *)
DriverActions == {"startOrder", "completeOrder", "failOrder"}

\* the transitions of an order a driver action may make
Permits(op, st) ==
  \/ op = "startOrder"    /\ st = "assigned"
  \/ op = "completeOrder" /\ st = "in_progress"
  \/ op = "failOrder"     /\ st \in {"assigned", "in_progress"}

\* request p is a driver action reading an existing order whose status does
\* not permit it
ReadsUnpermitted(p, o) ==
  /\ req[p].op \in DriverActions /\ req[p].pc = "get" /\ req'[p] # req[p]
  /\ o.id = req[p].a.id /\ ~Permits(req[p].op, o.status)

\* the statement as written: for every existing order and every driverId, a
\* driver action on an order whose status does not permit it is answered
\* Conflict with the current status in the message, and changes nothing
C21_ConflictForEveryDriver ==
  [][\A p \in Slots : \A o \in orders :
       ReadsUnpermitted(p, o) =>
         /\ req'[p].pc = "done" /\ req'[p].res = "Conflict" /\ req'[p].msg = o.status
         /\ db' = db]_vars

\* C21: for every existing order, a driver action called by the order's
\* assigned driver on an order whose status does not permit it is answered
\* Conflict with the current status in the message, and changes nothing
C21_ConflictForAssignedDriver ==
  [][\A p \in Slots : \A o \in orders :
       (ReadsUnpermitted(p, o) /\ o.assignedDriverId = req[p].a.driverId) =>
         /\ req'[p].pc = "done" /\ req'[p].res = "Conflict" /\ req'[p].msg = o.status
         /\ db' = db]_vars

\* the assigned driver asked to complete an order that was not started yet
\* and was told Conflict, status assigned; the order is still assigned
C21_Witness ==
  \E p \in Slots : \E o \in orders :
    /\ req[p].op = "completeOrder" /\ req[p].pc = "done"
    /\ req[p].res = "Conflict" /\ req[p].msg = "assigned"
    /\ o.id = req[p].a.id /\ o.assignedDriverId = req[p].a.driverId /\ o.status = "assigned"
    /\ attempts = {}

(* ------------------------ The delivery round trip ---------------------- *)
AttemptsOf(o) == {a \in attempts : a.orderId = o.id}

\* C22: after createOrder, assign, startOrder and completeOrder for a driver
\* with an active shift, the order read back is completed and has exactly one
\* attempt, which is completed and has its completedAt set
C22_RoundTrip ==
  \A o \in orders :
    (\/ o.status = "completed"
     \/ \E p \in Slots : /\ req[p].op = "completeOrder" /\ req[p].pc = "done"
                         /\ req[p].res = "ok" /\ req[p].a.id = o.id)
      => /\ o.status = "completed"
         /\ Cardinality(AttemptsOf(o)) = 1
         /\ \A a \in AttemptsOf(o) : a.status = "completed" /\ a.completedAt # Null

\* completeOrder of the driver the order was assigned to has just answered ok:
\* the order is completed with its one completed attempt
C22_Witness ==
  \E p \in Slots : \E o \in orders :
    /\ req[p].op = "completeOrder" /\ req[p].pc = "done" /\ req[p].res = "ok"
    /\ req[p].a.id = o.id /\ req[p].a.driverId = o.assignedDriverId
    /\ o.status = "completed"
    /\ \E a \in attempts : a.orderId = o.id /\ a.status = "completed" /\ a.completedAt # Null
    /\ \E x \in shifts : x.driverId = o.assignedDriverId /\ x.status = "active"

(* ------------------------ Allocations in use --------------------------- *)
\* the shifts that reference allocation id
ShiftsUsing(id) == {s \in shifts : s.vehicleAllocationId = id}
InUse(id) == \E s \in ShiftsUsing(id) : s.status = "active"

\* request p, a call of one of ops, is answered in this step
Answers(p, ops) == req[p].op \in ops /\ req[p].pc # "done" /\ req'[p].pc = "done"

\* C23: modify and release of an allocation that an active shift references
\* are answered Conflict, and no step changes or deletes the row of such an
\* allocation
C23_AllocationInUse ==
  [][/\ \A p \in Slots :
          (Answers(p, {"modify", "release"}) /\ InUse(req[p].a.id))
            => (req'[p].res = "Conflict" /\ allocs' = allocs)
     /\ \A r \in allocs : InUse(r.id) => r \in allocs']_vars

\* modify was answered Conflict for the allocation of the active shift, and
\* the allocation is as it was created
C23_Witness ==
  \E p \in Slots : \E r \in allocs :
    /\ req[p].op = "modify" /\ req[p].pc = "done" /\ req[p].res = "Conflict"
    /\ r.id = req[p].a.id /\ InUse(r.id)
    /\ r.driverId = r.vehicleId /\ r.id = (r.driverId - 1) * MaxDay + r.allocationDate

\* C24: an allocation is deleted only in a step that finds no shift of any
\* status referencing it; release of an allocation that a shift references is
\* answered Conflict and deletes nothing; no shift holds the id of an
\* allocation that is not there
C24_ReleaseOnlyUnreferenced ==
  [][/\ \A r \in allocs : ById(allocs', r.id) = {} => ShiftsUsing(r.id) = {}
     /\ \A p \in Slots :
          (Answers(p, {"release"}) /\ ShiftsUsing(req[p].a.id) # {})
            => (req'[p].res = "Conflict" /\ allocs' = allocs)
     /\ \A s \in shifts' : s.vehicleAllocationId # Null => ById(allocs', s.vehicleAllocationId) # {}]_vars

\* release was answered Conflict for an allocation whose only shift is
\* completed, and the allocation is still there
C24_Witness ==
  \E p \in Slots :
    /\ req[p].op = "release" /\ req[p].pc = "done" /\ req[p].res = "Conflict"
    /\ ShiftsUsing(req[p].a.id) # {}
    /\ \A s \in ShiftsUsing(req[p].a.id) : s.status = "completed"
    /\ ById(allocs, req[p].a.id) # {}

(* ------------------------ One shift per driver and day ----------------- *)
ShiftsOn(rows, d, t) == {x \in rows : x.driverId = d /\ x.shiftDate = t}

\* C25: at most one shift exists per driver and date; schedule for a driver
\* and date that has a shift is answered Conflict and creates nothing; and
\* schedule and startShift requests racing each other are answered ok,
\* NotFound, BadRequest or Conflict, never with a storage or internal error
C25_OneShiftPerDriverDate ==
  [][/\ \A d \in Drivers, t \in Days : Cardinality(ShiftsOn(shifts', d, t)) <= 1
     /\ \A p \in Slots :
          (Answers(p, {"schedule"}) /\ ShiftsOn(shifts, req[p].a.driverId, req[p].a.date) # {})
            => (req'[p].res = "Conflict" /\ shifts' = shifts)
     /\ \A p \in Slots :
          Answers(p, {"schedule", "startShift"})
            => req'[p].res \in {"ok", "NotFound", "BadRequest", "Conflict"}]_vars

\* an ad hoc startShift lost the race against schedule for the same driver
\* and day: it was answered Conflict, and the day's one shift is the scheduled
\* one
C25_Witness ==
  \E p, q \in Slots :
    /\ req[p].op = "startShift" /\ req[p].pc = "done" /\ req[p].res = "Conflict"
    /\ req[q].op = "schedule" /\ req[q].pc = "done" /\ req[q].res = "ok"
    /\ req[q].a.driverId = req[p].a.driverId /\ req[q].a.date = today
    /\ \A x \in shifts : x.driverId = req[p].a.driverId => x.status = "scheduled"
    /\ Cardinality(ShiftsOn(shifts, req[p].a.driverId, today)) = 1

(* ------------------------ No shift scheduled in the past --------------- *)
\* C26: a schedule request that is answered ok has a date not before the day
\* the request was made on, also when the server has been running since an
\* earlier day; a request for an earlier date is rejected with a validation
\* error and creates no shift
C26_ScheduleNotInPast ==
  [][\A p \in Slots :
       /\ (Answers(p, {"schedule"}) /\ req'[p].res = "ok")
            => req[p].a.date >= req[p].a.receivedOn
       /\ (req'[p].op = "schedule" /\ req[p].pc = "idle"
             /\ req'[p].a.date < req'[p].a.receivedOn)
            => (req'[p].pc = "done" /\ req'[p].res = "Validation" /\ shifts' = shifts)]_vars

(* ------------------------ No allocation in the past -------------------- *)
\* C27: an allocate request that is answered ok has a date not before the
\* day the request was made on; a request for an earlier date is rejected
\* with a validation error and creates no allocation
C27_AllocateNotInPast ==
  [][\A p \in Slots :
       /\ (Answers(p, {"allocate"}) /\ req'[p].res = "ok")
            => req[p].a.date >= req[p].a.receivedOn
       /\ (req'[p].op = "allocate" /\ req[p].pc = "idle"
             /\ req'[p].a.date < req'[p].a.receivedOn)
            => (req'[p].pc = "done" /\ req'[p].res = "Validation" /\ allocs' = allocs)
       /\ (req[p].op = "allocate" /\ req[p].a.date < req[p].a.receivedOn)
            => allocs' = allocs]_vars

\* after midnight an allocate request for the day before was rejected with a
\* validation error, and there is no allocation for that day
C27_Witness ==
  \E p \in Slots :
    /\ req[p].op = "allocate" /\ req[p].pc = "done" /\ req[p].res = "Validation"
    /\ req[p].a.receivedOn > bootDay /\ req[p].a.date < req[p].a.receivedOn
    /\ req[p].a.vehicleId \in Vehicles /\ req[p].a.driverId \in Drivers
    /\ \A r \in allocs : r.allocationDate # req[p].a.date

(* ------------------------ Rejections of endShift ----------------------- *)
\* C28: endShift is answered NotFound for an unknown shift, BadRequest when
\* the caller is not the shift's driver, and BadRequest when the shift is
\* not active; in each case the shifts are unchanged
C28_EndShiftRejections ==
  [][\A p \in Slots :
       Answers(p, {"endShift"}) =>
         /\ (\A s \in shifts : s.id # req[p].a.id)
              => (req'[p].res = "NotFound" /\ shifts' = shifts)
         /\ \A s \in shifts :
              (s.id = req[p].a.id /\ (s.driverId # req[p].a.driverId \/ s.status # "active"))
                => (req'[p].res = "BadRequest" /\ shifts' = shifts)]_vars

\* the driver asked to end their own shift a second time and was told
\* BadRequest; the shift is completed as before
C28_Witness ==
  \E p \in Slots : \E s \in shifts :
    /\ req[p].op = "endShift" /\ req[p].pc = "done" /\ req[p].res = "BadRequest"
    /\ s.id = req[p].a.id /\ s.driverId = req[p].a.driverId
    /\ s.status = "completed" /\ s.endTime # Null

(* ------------------------ Stock is never negative ---------------------- *)
\* C29: no inventory row has a negative quantity; adjust of a row whose
\* quantity plus the adjustment is negative is answered with a Validation
\* error and leaves the inventory unchanged, and otherwise it is answered ok
\* and sets the row's quantity to the quantity plus the adjustment
C29_StockNotNegative ==
  [][/\ \A i \in inventory' : i.quantity >= 0
     /\ \A p \in Slots : \A i \in inventory :
          (Answers(p, {"adjust"}) /\ inventoryId(i) = req[p].a.id) =>
            IF i.quantity + req[p].a.adjustment < 0
              THEN req'[p].res = "Validation" /\ inventory' = inventory
              ELSE /\ req'[p].res = "ok"
                   /\ inventory' = (inventory \ {i})
                        \cup {[i EXCEPT !.quantity = i.quantity + req[p].a.adjustment]}]_vars

\* adjust was asked to take more than the row holds and was answered with a
\* Validation error; the row still holds its stock
C29_Witness ==
  \E p \in Slots : \E i \in inventory :
    /\ req[p].op = "adjust" /\ req[p].pc = "done" /\ req[p].res = "Validation"
    /\ inventoryId(i) = req[p].a.id
    /\ i.quantity > 0 /\ i.quantity + req[p].a.adjustment < 0

(* ------------------------ Deleting an order ---------------------------- *)
\* C30: an order disappears only in a step that finds it pending; remove of
\* an order in another status is answered Conflict and leaves the orders and
\* the attempts as they are; no step of remove touches an attempt
C30_DeleteOnlyPending ==
  [][/\ \A o \in orders : (\A n \in orders' : n.id # o.id) => o.status = "pending"
     /\ \A p \in Slots :
          /\ (Answers(p, {"removeOrder"})
                /\ \E o \in orders : o.id = req[p].a.id /\ o.status # "pending")
               => (req'[p].res = "Conflict" /\ orders' = orders /\ attempts' = attempts)
          /\ (req[p].op = "removeOrder" /\ req'[p] # req[p]) => attempts' = attempts]_vars

\* remove of an order under way was answered Conflict; the order and its
\* attempt are still there
C30_Witness ==
  \E p \in Slots : \E o \in orders :
    /\ req[p].op = "removeOrder" /\ req[p].pc = "done" /\ req[p].res = "Conflict"
    /\ o.id = req[p].a.id /\ o.status = "in_progress"
    /\ \E a \in attempts : a.orderId = o.id /\ a.status = "in_progress"

(* ------------------------ Vehicles free on a day ----------------------- *)
\* C31: the vehicles returned for a date are exactly the vehicles that have
\* no allocation on that date, whatever the allocations are
C31_AvailableVehicles ==
  [][\A p \in Slots :
       Answers(p, {"available"}) =>
         /\ req'[p].res = "ok"
         /\ req'[p].body = {v \in Vehicles :
                              ~\E a \in allocs : a.vehicleId = v /\ a.allocationDate = req[p].a.date}]_vars

\* a vehicle held on another day only is returned, one held on the day asked
\* for is not
C31_Witness ==
  \E p \in Slots : \E v, w \in Vehicles :
    /\ req[p].op = "available" /\ req[p].pc = "done"
    /\ v \in req[p].body /\ w \notin req[p].body
    /\ \E a \in allocs : a.vehicleId = v /\ a.allocationDate # req[p].a.date
    /\ \E a \in allocs : a.vehicleId = w /\ a.allocationDate = req[p].a.date

(* ------------------------ Checks and writes as one unit ---------------- *)
\* C32: a transition committed by startOrder, completeOrder or failOrder is
\* committed in a state where the order still has a status that permits it,
\* the caller is still its assigned driver and the shift the handler read is
\* still active
C32_CommitUnderPreconditions ==
  [][\A p \in Slots :
       (Answers(p, DriverActions) /\ req'[p].res = "ok") =>
         /\ \E o \in orders :
              /\ o.id = req[p].a.id /\ Permits(req[p].op, o.status)
              /\ o.assignedDriverId = req[p].a.driverId
         /\ \E x \in shifts :
              /\ x.id = req[p].l.shiftId /\ x.driverId = req[p].a.driverId
              /\ x.status = "active"]_vars

(* ------------------------ Resolved attempts ---------------------------- *)
Resolved(a) == a.status \in {"completed", "failed"}

\* C33: an attempt that is completed or failed is never changed again, in
\* status, failureReason or completedAt, and no attempt is ever deleted
C33_ResolvedAttemptImmutable ==
  [][\A a \in attempts :
       /\ \E b \in attempts' : b.id = a.id
       /\ Resolved(a) => a \in attempts']_vars

(* ------------------------ One attempt per order and shift -------------- *)
\* C34: there is at most one attempt per order and shift, also when two
\* startOrder requests, or a startOrder and a failOrder, for the same order
\* run concurrently
C34_OneAttemptPerOrderShift ==
  \A a, b \in attempts : (a.orderId = b.orderId /\ a.shiftId = b.shiftId) => a.id = b.id

(* ------------------------ One active shift per vehicle ----------------- *)
\* the vehicle of the allocation a shift is bound to
VehicleOf(s) == {a.vehicleId : a \in {x \in allocs : x.id = s.vehicleAllocationId}}

\* C35: at most one active shift is bound to an allocation of a given
\* vehicle, also when a shift of an earlier day was never ended and the
\* vehicle is allocated to another driver on a later day
C35_OneActiveShiftPerVehicle ==
  \A s, t \in shifts :
    (s.status = "active" /\ t.status = "active" /\ VehicleOf(s) \cap VehicleOf(t) # {})
      => s.id = t.id

(* ------------------------ Completed shifts and open attempts ----------- *)
\* C36: a completed shift has no in_progress attempt recorded under it, also
\* for orders whose assignedDate is not the shift's date
C36_CompletedShiftNoOpenAttempt ==
  \A s \in shifts : s.status = "completed" =>
    ~\E a \in attempts : a.shiftId = s.id /\ a.status = "in_progress"

(* ------------------------ Orders under way can be completed ------------ *)
\* C37: completeOrder called by the assigned driver of an in_progress order
\* succeeds whenever that driver has an active shift, the one the order was
\* started in or a later one
C37_InProgressCompletable ==
  [][\A p \in Slots :
       (/\ Answers(p, {"completeOrder"})
        /\ \E o \in orders : /\ o.id = req[p].a.id /\ o.status = "in_progress"
                              /\ o.assignedDriverId = req[p].a.driverId
        /\ \E x \in shifts : x.driverId = req[p].a.driverId /\ x.status = "active")
         => req'[p].res = "ok"]_vars

(* ------------------------ Conservation of stock ------------------------ *)
RECURSIVE SumQuantity(_)
SumQuantity(rows) ==
  IF rows = {} THEN 0
  ELSE LET r == CHOOSE r \in rows : TRUE IN r.quantity + SumQuantity(rows \ {r})

RECURSIVE SumAdjustment(_)
SumAdjustment(ps) ==
  IF ps = {} THEN 0
  ELSE LET p == CHOOSE p \in ps : TRUE IN req[p].a.adjustment + SumAdjustment(ps \ {p})

\* the completed orders for a row, and the adjust requests of the row that
\* were answered ok
Delivered(i) ==
  {o \in orders : /\ o.destinationId = i.locationId /\ o.productId = i.productId
                  /\ o.status = "completed"}
Adjusted(i) ==
  {p \in Slots : /\ req[p].op = "adjust" /\ req[p].pc = "done" /\ req[p].res = "ok"
                 /\ req[p].a.id = inventoryId(i)}

\* C38: every inventory row holds the quantity it was set up with, one unit,
\* plus the quantities of the completed orders for its location and product
\* plus the adjustments that succeeded on it; also after update calls on the
\* orders and with adjust in flight together with a completion
C38_StockConserved ==
  \A i \in inventory :
    i.quantity = 1 + SumQuantity(Delivered(i)) + SumAdjustment(Adjusted(i))

AgreeIn(sh, al, sts) ==
  \A s \in sh :
    (s.status \in sts /\ s.vehicleAllocationId # Null) =>
      \E a \in al : /\ a.id = s.vehicleAllocationId
                    /\ a.driverId = s.driverId
                    /\ a.allocationDate = s.shiftDate

\* no allocation named by a shift with a status of sts gets another vehicle,
\* driver or date in this step
KeptFor(sts) ==
  \A a \in allocs :
    (\E s \in shifts : s.vehicleAllocationId = a.id /\ s.status \in sts)
      => \A b \in allocs' : b.id = a.id => b = a

====
